---- MODULE Spec2Model ----
(***************************************************************************)
(* WalletSystem (src/wallet.py): an in-memory ledger of per-user balances, *)
(* an append-only transaction log and auxiliary per-user records.          *)
(*                                                                         *)
(* Amounts are Python floats.  They are modelled as binary floating-point  *)
(* numbers of reduced size: a finite value is an integer number of quanta  *)
(* (one quantum is 1/UNIT, i.e. 0.05), it carries at most PREC significant *)
(* bits, every arithmetic result is rounded to nearest, ties to even, a    *)
(* result above DBL_MAX becomes INF, and INF - INF is NAN.                 *)
(***************************************************************************)
EXTENDS Integers, Sequences, FiniteSets, TLC

VARIABLES balances, balance_keys, transactions, user_pins, payment_methods,
          spending_limits, call, old, running

vars == <<balances, balance_keys, transactions, user_pins, payment_methods,
          spending_limits, call, old, running>>

-----------------------------------------------------------------------------
(* Floating point                                                          *)

\* quanta per 1.0: the float 0.05 is 1, 1.0 is 20, 700.0 is 14000
UNIT == 20
\* significant bits of a float (53 in a Python float)
PREC == 17
\* the largest finite float, in quanta (about 1.8e308 in a Python float)
DBL_MAX == 67108864
\* float('inf') and the not-a-number value
INF == 1073741824
NAN == 1073741825
\* the value None
None == "None"

RECURSIVE Pow2(_)
Pow2(n) == IF n = 0 THEN 1 ELSE 2 * Pow2(n - 1)

\* the spacing of the floats around n >= 0
RECURSIVE UlpFrom(_, _)
UlpFrom(n, u) == IF n \div u < Pow2(PREC) THEN u ELSE UlpFrom(n, 2 * u)
Ulp(n) == UlpFrom(n, 1)

\* the float nearest to the rational p/q (p >= 0, q > 0), ties to even
RoundRat(p, q) ==
    LET u == Ulp(p \div q)
        d == q * u
        k == p \div d
        r == p % d
        m == IF 2 * r > d \/ (2 * r = d /\ k % 2 = 1) THEN k + 1 ELSE k
    IN  IF m * u > DBL_MAX THEN INF ELSE m * u

RoundInt(n) == IF n >= 0 THEN RoundRat(n, 1) ELSE 0 - RoundRat(0 - n, 1)

IsFinite(x) == x # NAN /\ x # INF /\ x # 0 - INF

FNeg(x) == IF x = NAN THEN NAN ELSE 0 - x

FAbs(x) == IF x = NAN THEN NAN ELSE IF x < 0 THEN 0 - x ELSE x

FAdd(x, y) ==
    IF x = NAN \/ y = NAN THEN NAN
    ELSE IF ~IsFinite(x) THEN (IF y = 0 - x THEN NAN ELSE x)
    ELSE IF ~IsFinite(y) THEN y
    ELSE RoundInt(x + y)

FSub(x, y) == FAdd(x, FNeg(y))

FMul(x, y) ==
    IF x = NAN \/ y = NAN THEN NAN
    ELSE IF ~IsFinite(x) \/ ~IsFinite(y)
         THEN (IF x = 0 \/ y = 0 THEN NAN
               ELSE IF (x < 0) = (y < 0) THEN INF ELSE 0 - INF)
    ELSE IF (x < 0) = (y < 0)
         THEN RoundRat(FAbs(x) * FAbs(y), UNIT)
         ELSE 0 - RoundRat(FAbs(x) * FAbs(y), UNIT)

\* comparisons: every comparison with NAN is false, except !=
FLt(x, y) == x # NAN /\ y # NAN /\ x < y
FLe(x, y) == x # NAN /\ y # NAN /\ x <= y
FGt(x, y) == FLt(y, x)
FGe(x, y) == FLe(y, x)
FEq(x, y) == x # NAN /\ y # NAN /\ x = y
FNe(x, y) == ~FEq(x, y)

-----------------------------------------------------------------------------
(* Dictionaries                                                            *)

EmptyDict == [k \in {} |-> None]

DictSet(d, k, v) == [x \in DOMAIN d \cup {k} |-> IF x = k THEN v ELSE d[x]]

\* dict.get(k) / dict.get(k, default)
Get(d, k, default) == IF k \in DOMAIN d THEN d[k] ELSE default

\* sum(self.balances.values()): left to right in insertion order, from 0
RECURSIVE SumSeq(_, _, _)
SumSeq(bal, keys, acc) ==
    IF keys = <<>> THEN acc
    ELSE SumSeq(bal, Tail(keys), FAdd(acc, bal[Head(keys)]))

SumBalances(bal, keys) == SumSeq(bal, keys, 0)

-----------------------------------------------------------------------------
(* Strings                                                                 *)

Contains(s, c) == \E i \in 1..Len(s) : SubSeq(s, i, i) = c

StartsWith(s, p) == Len(s) >= Len(p) /\ SubSeq(s, 1, Len(p)) = p

\* the decimal digits 0..9
Digits == {"0", "1", "2", "3", "4", "5", "6", "7", "8", "9"}

\* characters that are digits to str.isdigit without being decimal digits
\* (the superscripts of Latin-1; Unicode has more)
SuperscriptDigits == {"¹", "²", "³"}

\* str.isdigit
IsDigit(s) ==
    /\ Len(s) > 0
    /\ \A i \in 1..Len(s) : SubSeq(s, i, i) \in Digits \cup SuperscriptDigits

-----------------------------------------------------------------------------
(* Program constants, in the units of the model                            *)

\* amount <= 1_000_000 (add_funds R3), in units of 1.0
SAFETY_LIMIT == 1000000
\* amount <= 10_000 (withdraw_funds R3), in units of 1.0
WITHDRAW_LIMIT == 10000
\* rate <= 0.2 (apply_interest R1), in quanta
MAX_RATE == 4
\* the absolute tolerances 1e-9 and 1e-6 of the postcondition checks, in quanta
TOL9 == 2
TOL6 == 4

PaymentTypes == {"card", "bank_account", "paypal"}

-----------------------------------------------------------------------------
(* The state of a WalletSystem as one value                                *)

State == [balances |-> balances, balance_keys |-> balance_keys,
          transactions |-> transactions, user_pins |-> user_pins,
          payment_methods |-> payment_methods,
          spending_limits |-> spending_limits]

\* WalletSystem.__init__
EmptyState == [balances |-> EmptyDict, balance_keys |-> <<>>,
               transactions |-> <<>>, user_pins |-> EmptyDict,
               payment_methods |-> EmptyDict, spending_limits |-> EmptyDict]

\* uuid.uuid4(): an identifier no earlier record carries
NewId(s) == Len(s.transactions) + 1

\* the first assertion that fails, or "ok"; checks is a sequence of
\* <<tag, condition>> in program order
RECURSIVE FirstFailure(_)
FirstFailure(checks) ==
    IF checks = <<>> THEN "ok"
    ELSE IF ~Head(checks)[2] THEN Head(checks)[1]
    ELSE FirstFailure(Tail(checks))

\* all(self.balances[u] == old_balances[u] for u in old_balances if u not in skip)
SameBalances(s, t, skip) ==
    \A u \in DOMAIN s.balances \ skip :
        u \in DOMAIN t.balances /\ FEq(t.balances[u], s.balances[u])

LastTx(s) == s.transactions[Len(s.transactions)]

\* the check without I5, the spending-limit keys
verify_invariants_no_i5(s) ==
    /\ Cardinality(DOMAIN s.balances) = Cardinality({u : u \in DOMAIN s.balances})
    /\ \A u \in DOMAIN s.balances : FGe(s.balances[u], 0)
    /\ \A u \in DOMAIN s.user_pins : u \in DOMAIN s.balances
    /\ \A u \in DOMAIN s.payment_methods : u \in DOMAIN s.balances

verify_invariants(s) ==
    /\ Cardinality(DOMAIN s.balances) = Cardinality({u : u \in DOMAIN s.balances})
    /\ \A u \in DOMAIN s.balances : FGe(s.balances[u], 0)
    /\ \A u \in DOMAIN s.user_pins : u \in DOMAIN s.balances
    /\ \A u \in DOMAIN s.payment_methods : u \in DOMAIN s.balances
    /\ \A u \in DOMAIN s.spending_limits : u \in DOMAIN s.balances

-----------------------------------------------------------------------------
(* create_account                                                          *)

\* create_account without the check that the identifier is unused
Pre_create_account_overwrite(s, user_id, email, password) ==
    FirstFailure(<<
        <<"R1", user_id # None /\ Len(user_id) > 0>>,
        <<"R3", email # None /\ Len(email) > 0 /\ Contains(email, "@")>>,
        <<"R4", password # None /\ Len(password) >= 6>> >>)

Pre_create_account(s, user_id, email, password) ==
    FirstFailure(<<
        <<"R1", user_id # None /\ Len(user_id) > 0>>,
        <<"R2", user_id \notin DOMAIN s.balances>>,
        <<"R3", email # None /\ Len(email) > 0 /\ Contains(email, "@")>>,
        <<"R4", password # None /\ Len(password) >= 6>> >>)

Apply_create_account(s, user_id) ==
    [s EXCEPT !.balances = DictSet(s.balances, user_id, 0),
              !.balance_keys = Append(s.balance_keys, user_id)]

Post_create_account(s, t, user_id) ==
    FirstFailure(<<
        <<"E1", user_id \in DOMAIN t.balances>>,
        <<"E2", FEq(t.balances[user_id], 0)>>,
        <<"E3", Cardinality(DOMAIN t.balances) = Cardinality(DOMAIN s.balances) + 1>>,
        <<"E4", SameBalances(s, t, {})>>,
        <<"E5", verify_invariants(t)>> >>)

-----------------------------------------------------------------------------
(* add_funds                                                               *)

Pre_add_funds(s, user_id, amount) ==
    FirstFailure(<<
        <<"R1", user_id \in DOMAIN s.balances>>,
        <<"R2", FGt(amount, 0)>>,
        <<"R3", FLe(amount, SAFETY_LIMIT * UNIT)>>,
        <<"R4", user_id \notin DOMAIN s.balances
                \/ FLt(FAdd(s.balances[user_id], amount), INF)>> >>)

\* add_funds that puts the new record at the head of the log
Apply_add_funds_prepend(s, user_id, amount, now) ==
    [s EXCEPT !.balances[user_id] = FAdd(@, amount),
              !.transactions =
                  <<[id |-> NewId(s), type |-> "deposit", user_id |-> user_id,
                     amount |-> amount, timestamp |-> now,
                     status |-> "completed"]>> \o @]

Apply_add_funds(s, user_id, amount, now) ==
    [s EXCEPT !.balances[user_id] = FAdd(@, amount),
              !.transactions = Append(@,
                  [id |-> NewId(s), type |-> "deposit", user_id |-> user_id,
                   amount |-> amount, timestamp |-> now,
                   status |-> "completed"])]

Post_add_funds(s, t, user_id, amount) ==
    FirstFailure(<<
        <<"E1", FLt(FAbs(FSub(t.balances[user_id],
                              FAdd(s.balances[user_id], amount))), TOL9)>>,
        <<"E2", SameBalances(s, t, {user_id})>>,
        <<"E3", FLt(FAbs(FSub(SumBalances(t.balances, t.balance_keys),
                              FAdd(SumBalances(s.balances, s.balance_keys), amount))),
                    TOL9)>>,
        <<"E4", /\ LastTx(t).type = "deposit"
                /\ LastTx(t).user_id = user_id
                /\ FLt(FAbs(FSub(LastTx(t).amount, amount)), TOL9)>>,
        <<"E5", Len(t.transactions) = Len(s.transactions) + 1>>,
        <<"E6", verify_invariants(t)>> >>)

-----------------------------------------------------------------------------
(* withdraw_funds                                                          *)

\* withdraw_funds without its balance checks R4 and R5
Pre_withdraw_funds_unchecked(s, user_id, bank_account, amount) ==
    FirstFailure(<<
        <<"R1", user_id \in DOMAIN s.balances>>,
        <<"R2", StartsWith(bank_account, "PT") /\ Len(bank_account) >= 10>>,
        <<"R3", FLt(0, amount) /\ FLe(amount, WITHDRAW_LIMIT * UNIT)>> >>)

\* withdraw_funds whose ceiling of 10000.0 is exclusive
Pre_withdraw_funds_exclusive(s, user_id, bank_account, amount) ==
    FirstFailure(<<
        <<"R1", user_id \in DOMAIN s.balances>>,
        <<"R2", StartsWith(bank_account, "PT") /\ Len(bank_account) >= 10>>,
        <<"R3", FLt(0, amount) /\ FLt(amount, WITHDRAW_LIMIT * UNIT)>>,
        <<"R4", user_id \notin DOMAIN s.balances
                \/ FGe(s.balances[user_id], amount)>>,
        <<"R5", user_id \notin DOMAIN s.balances
                \/ FGe(FSub(s.balances[user_id], amount), 0)>> >>)

\* the preconditions with a withdrawal above the user's daily limit rejected
Pre_withdraw_funds_limited(s, user_id, bank_account, amount) ==
    FirstFailure(<<
        <<"R1", user_id \in DOMAIN s.balances>>,
        <<"R2", StartsWith(bank_account, "PT") /\ Len(bank_account) >= 10>>,
        <<"R3", /\ FLt(0, amount) /\ FLe(amount, WITHDRAW_LIMIT * UNIT)
                /\ \/ user_id \notin DOMAIN s.spending_limits
                   \/ s.spending_limits[user_id].daily = <<>>
                   \/ FLe(amount, s.spending_limits[user_id].daily[1])>>,
        <<"R4", user_id \notin DOMAIN s.balances
                \/ FGe(s.balances[user_id], amount)>>,
        <<"R5", user_id \notin DOMAIN s.balances
                \/ FGe(FSub(s.balances[user_id], amount), 0)>> >>)

Pre_withdraw_funds(s, user_id, bank_account, amount) ==
    FirstFailure(<<
        <<"R1", user_id \in DOMAIN s.balances>>,
        <<"R2", StartsWith(bank_account, "PT") /\ Len(bank_account) >= 10>>,
        <<"R3", FLt(0, amount) /\ FLe(amount, WITHDRAW_LIMIT * UNIT)>>,
        <<"R4", user_id \notin DOMAIN s.balances
                \/ FGe(s.balances[user_id], amount)>>,
        <<"R5", user_id \notin DOMAIN s.balances
                \/ FGe(FSub(s.balances[user_id], amount), 0)>> >>)

Apply_withdraw_funds(s, user_id, bank_account, amount, now) ==
    [s EXCEPT !.balances[user_id] = FSub(@, amount),
              !.transactions = Append(@,
                  [id |-> NewId(s), type |-> "withdrawal", user_id |-> user_id,
                   amount |-> amount, destination |-> bank_account,
                   timestamp |-> now, status |-> "completed"])]

Post_withdraw_funds(s, t, user_id, bank_account, amount) ==
    FirstFailure(<<
        <<"E1", FLt(FAbs(FSub(t.balances[user_id],
                              FSub(s.balances[user_id], amount))), TOL9)>>,
        <<"E2", SameBalances(s, t, {user_id})>>,
        <<"E3", FLt(FAbs(FSub(SumBalances(t.balances, t.balance_keys),
                              FSub(SumBalances(s.balances, s.balance_keys), amount))),
                    TOL9)>>,
        <<"E4", /\ LastTx(t).type = "withdrawal"
                /\ Get(LastTx(t), "destination", None) = bank_account>>,
        <<"E5", verify_invariants(t)>> >>)

-----------------------------------------------------------------------------
(* transfer                                                                *)

\* transfer whose R4 demands strictly more than the amount
Pre_transfer_strict(s, sender, receiver, amount) ==
    FirstFailure(<<
        <<"R1", sender \in DOMAIN s.balances /\ receiver \in DOMAIN s.balances>>,
        <<"R2", sender # receiver>>,
        <<"R3", FGt(amount, 0)>>,
        <<"R4", sender \notin DOMAIN s.balances
                \/ FGt(s.balances[sender], amount)>>,
        <<"R5", receiver \notin DOMAIN s.balances
                \/ FLt(FAdd(s.balances[receiver], amount), INF)>> >>)

\* the preconditions without R2, a transfer to oneself let through
Pre_transfer_self(s, sender, receiver, amount) ==
    FirstFailure(<<
        <<"R1", sender \in DOMAIN s.balances /\ receiver \in DOMAIN s.balances>>,
        <<"R3", FGt(amount, 0)>>,
        <<"R4", sender \notin DOMAIN s.balances
                \/ FGe(s.balances[sender], amount)>>,
        <<"R5", receiver \notin DOMAIN s.balances
                \/ FLt(FAdd(s.balances[receiver], amount), INF)>> >>)

Pre_transfer(s, sender, receiver, amount) ==
    FirstFailure(<<
        <<"R1", sender \in DOMAIN s.balances /\ receiver \in DOMAIN s.balances>>,
        <<"R2", sender # receiver>>,
        <<"R3", FGt(amount, 0)>>,
        <<"R4", sender \notin DOMAIN s.balances
                \/ FGe(s.balances[sender], amount)>>,
        <<"R5", receiver \notin DOMAIN s.balances
                \/ FLt(FAdd(s.balances[receiver], amount), INF)>> >>)

Apply_transfer(s, sender, receiver, amount, now) ==
    [s EXCEPT !.balances[sender] = FSub(@, amount),
              !.balances[receiver] = FAdd(@, amount),
              !.transactions = Append(@,
                  [id |-> NewId(s), type |-> "transfer", from |-> sender,
                   to |-> receiver, amount |-> amount, timestamp |-> now,
                   status |-> "completed"])]

Post_transfer(s, t, sender, receiver, amount) ==
    FirstFailure(<<
        <<"E1", FLt(FAbs(FSub(t.balances[sender],
                              FSub(s.balances[sender], amount))), TOL9)>>,
        <<"E2", FLt(FAbs(FSub(t.balances[receiver],
                              FAdd(s.balances[receiver], amount))), TOL9)>>,
        <<"E3", SameBalances(s, t, {sender, receiver})>>,
        <<"E4", FLt(FAbs(FSub(SumBalances(s.balances, s.balance_keys),
                              SumBalances(t.balances, t.balance_keys))), TOL9)>>,
        <<"E5", /\ LastTx(t).type = "transfer"
                /\ Get(LastTx(t), "from", None) = sender
                /\ Get(LastTx(t), "to", None) = receiver>>,
        <<"E6", verify_invariants(t)>> >>)

-----------------------------------------------------------------------------
(* apply_interest                                                          *)

\* R1 with the ceiling of 0.20 excluded
RateOk_exclusive(rate) == FLt(0, rate) /\ FLt(rate, MAX_RATE)

RateOk(rate) == FLt(0, rate) /\ FLe(rate, MAX_RATE)

Pre_apply_interest(s, rate) ==
    FirstFailure(<<
        <<"R1", RateOk(rate)>>,
        <<"R2", ~RateOk(rate)
                \/ \A u \in DOMAIN s.balances :
                       FLt(FMul(s.balances[u], FAdd(UNIT, rate)), INF)>> >>)

\* the loop with the new balance computed as balance * (1 + rate)
RECURSIVE interest_loop_scaled(_, _, _, _)
interest_loop_scaled(s, keys, rate, nows) ==
    IF keys = <<>> THEN s
    ELSE LET user_id == Head(keys)
             prev == s.balances[user_id]
             interest == FMul(prev, rate)
         IN  interest_loop_scaled(
                 [s EXCEPT !.balances[user_id] = FMul(prev, FAdd(UNIT, rate)),
                           !.transactions = Append(@,
                               [id |-> NewId(s), type |-> "interest",
                                user_id |-> user_id, amount |-> interest,
                                timestamp |-> Head(nows),
                                status |-> "completed"])],
                 Tail(keys), rate, Tail(nows))

\* the loop over list(self.balances.keys()); nows holds what time.time()
\* returns in each iteration
RECURSIVE interest_loop(_, _, _, _)
interest_loop(s, keys, rate, nows) ==
    IF keys = <<>> THEN s
    ELSE LET user_id == Head(keys)
             prev == s.balances[user_id]
             interest == FMul(prev, rate)
         IN  interest_loop(
                 [s EXCEPT !.balances[user_id] = FAdd(prev, interest),
                           !.transactions = Append(@,
                               [id |-> NewId(s), type |-> "interest",
                                user_id |-> user_id, amount |-> interest,
                                timestamp |-> Head(nows),
                                status |-> "completed"])],
                 Tail(keys), rate, Tail(nows))

\* one iteration of the loop, lines 298-308
interest_step(s, user_id, rate, now) ==
    LET prev == s.balances[user_id]
        interest == FMul(prev, rate)
    IN  [s EXCEPT !.balances[user_id] = FAdd(prev, interest),
                  !.transactions = Append(@,
                      [id |-> NewId(s), type |-> "interest",
                       user_id |-> user_id, amount |-> interest,
                       timestamp |-> now,
                       status |-> "completed"])]

RECURSIVE Reverse(_)
Reverse(seq) == IF seq = <<>> THEN <<>> ELSE Append(Reverse(Tail(seq)), Head(seq))

\* the loop run over the accounts from the newest to the oldest
Apply_apply_interest_reversed(s, rate, nows) ==
    interest_loop(s, Reverse(s.balance_keys), rate, nows)

Apply_apply_interest(s, rate, nows) ==
    interest_loop(s, s.balance_keys, rate, nows)

\* self.transactions[-n:] (the whole list when n = 0)
LastN(seq, n) ==
    IF n = 0 \/ n >= Len(seq) THEN seq ELSE SubSeq(seq, Len(seq) - n + 1, Len(seq))

Post_apply_interest(s, t, rate) ==
    FirstFailure(<<
        <<"E1", \A u \in DOMAIN s.balances :
                    FLt(FAbs(FSub(t.balances[u],
                                  FMul(s.balances[u], FAdd(UNIT, rate)))), TOL9)>>,
        <<"E2", FLt(FAbs(FSub(SumBalances(t.balances, t.balance_keys),
                              FMul(SumBalances(s.balances, s.balance_keys),
                                   FAdd(UNIT, rate)))), TOL6)>>,
        <<"E3", Len(t.transactions)
                    = Len(s.transactions) + Cardinality(DOMAIN s.balances)>>,
        <<"E4", LET tail == LastN(t.transactions, Cardinality(DOMAIN s.balances))
                IN  \A u \in DOMAIN s.balances :
                        \E i \in 1..Len(tail) :
                            /\ tail[i].type = "interest"
                            /\ Get(tail[i], "user_id", None) = u>>,
        <<"E5", verify_invariants(t)>> >>)

-----------------------------------------------------------------------------
(* real_time_update                                                        *)

\* real_time_update that checks the resulting balance before the debit cover
Pre_real_time_update_reordered(s, user_id, amount) ==
    FirstFailure(<<
        <<"R1", user_id \in DOMAIN s.balances>>,
        <<"R2", FNe(amount, 0)>>,
        <<"R4", user_id \notin DOMAIN s.balances
                \/ FGe(FAdd(s.balances[user_id], amount), 0)>>,
        <<"R3", user_id \notin DOMAIN s.balances
                \/ FGt(amount, 0)
                \/ FGe(s.balances[user_id], FAbs(amount))>> >>)

Pre_real_time_update(s, user_id, amount) ==
    FirstFailure(<<
        <<"R1", user_id \in DOMAIN s.balances>>,
        <<"R2", FNe(amount, 0)>>,
        <<"R3", user_id \notin DOMAIN s.balances
                \/ FGt(amount, 0)
                \/ FGe(s.balances[user_id], FAbs(amount))>>,
        <<"R4", user_id \notin DOMAIN s.balances
                \/ FGe(FAdd(s.balances[user_id], amount), 0)>> >>)

Apply_real_time_update(s, user_id, amount, now) ==
    [s EXCEPT !.balances[user_id] = FAdd(@, amount),
              !.transactions = Append(@,
                  [id |-> NewId(s),
                   type |-> IF FGt(amount, 0) THEN "credit" ELSE "debit",
                   user_id |-> user_id, amount |-> amount, timestamp |-> now,
                   status |-> "completed"])]

Post_real_time_update(s, t, user_id, amount) ==
    FirstFailure(<<
        <<"E1", FLt(FAbs(FSub(t.balances[user_id],
                              FAdd(s.balances[user_id], amount))), TOL9)>>,
        <<"E2", SameBalances(s, t, {user_id})>>,
        <<"E3", /\ LastTx(t).type \in {"credit", "debit"}
                /\ LastTx(t).user_id = user_id>>,
        <<"E4", verify_invariants(t)>> >>)

-----------------------------------------------------------------------------
(* set_pin, authenticate_pin                                               *)

\* set_pin without the check that the account exists
Pre_set_pin_anyuser(s, user_id, pin) ==
    FirstFailure(<<
        <<"R2", pin # None /\ Len(pin) > 0>>,
        <<"R3", 4 <= Len(pin) /\ Len(pin) <= 8>>,
        <<"R4", IsDigit(pin)>> >>)

Pre_set_pin(s, user_id, pin) ==
    FirstFailure(<<
        <<"R1", user_id \in DOMAIN s.balances>>,
        <<"R2", pin # None /\ Len(pin) > 0>>,
        <<"R3", 4 <= Len(pin) /\ Len(pin) <= 8>>,
        <<"R4", IsDigit(pin)>> >>)

\* the PIN written for every account
Apply_set_pin_all(s, user_id, pin) ==
    [s EXCEPT !.user_pins = [u \in DOMAIN s.balances |-> pin]]

Apply_set_pin(s, user_id, pin) ==
    [s EXCEPT !.user_pins = DictSet(s.user_pins, user_id, pin)]

Post_set_pin(s, t, user_id, pin) ==
    FirstFailure(<<
        <<"E1", t.user_pins[user_id] = pin>>,
        <<"E2", SameBalances(s, t, {})>>,
        <<"E3", verify_invariants(t)>> >>)

Pre_authenticate_pin(s, user_id, pin) ==
    FirstFailure(<<
        <<"R1", user_id \in DOMAIN s.balances>>,
        <<"R2", pin # None>> >>)

\* a comparison that is satisfied by any stored PIN
Result_authenticate_pin_any(s, user_id, pin) ==
    user_id \in DOMAIN s.user_pins

Result_authenticate_pin(s, user_id, pin) ==
    Get(s.user_pins, user_id, None) = pin

-----------------------------------------------------------------------------
(* set_spending_limits                                                     *)

\* an Optional[float] is <<>> for None and <<x>> for the float x
NoLimit == <<>>

\* the preconditions with a daily limit equal to the monthly one rejected
Pre_set_spending_limits_strict(s, user_id, daily, monthly) ==
    FirstFailure(<<
        <<"R1", user_id \in DOMAIN s.balances>>,
        <<"R2", (daily = NoLimit \/ FGt(daily[1], 0))
                /\ (monthly = NoLimit \/ FGt(monthly[1], 0))>>,
        <<"R3", ~(daily # NoLimit /\ monthly # NoLimit
                  /\ FGe(daily[1], monthly[1]))>> >>)

\* the preconditions without R3, the order of the two limits
Pre_set_spending_limits_unordered(s, user_id, daily, monthly) ==
    FirstFailure(<<
        <<"R1", user_id \in DOMAIN s.balances>>,
        <<"R2", (daily = NoLimit \/ FGt(daily[1], 0))
                /\ (monthly = NoLimit \/ FGt(monthly[1], 0))>> >>)

Pre_set_spending_limits(s, user_id, daily, monthly) ==
    FirstFailure(<<
        <<"R1", user_id \in DOMAIN s.balances>>,
        <<"R2", (daily = NoLimit \/ FGt(daily[1], 0))
                /\ (monthly = NoLimit \/ FGt(monthly[1], 0))>>,
        <<"R3", ~(daily # NoLimit /\ monthly # NoLimit
                  /\ FGt(daily[1], monthly[1]))>> >>)

Apply_set_spending_limits(s, user_id, daily, monthly) ==
    [s EXCEPT !.spending_limits = DictSet(s.spending_limits, user_id,
                  [daily |-> daily, monthly |-> monthly,
                   daily_used |-> 0, monthly_used |-> 0])]

Post_set_spending_limits(s, t, user_id, daily, monthly) ==
    FirstFailure(<<
        <<"E1", t.spending_limits[user_id].daily = daily>>,
        <<"E2", t.spending_limits[user_id].monthly = monthly>>,
        <<"E3", FEq(t.spending_limits[user_id].daily_used, 0)>>,
        <<"E4", FEq(t.spending_limits[user_id].monthly_used, 0)>>,
        <<"E5", SameBalances(s, t, {})>> >>)

-----------------------------------------------------------------------------
(* add_payment_method, get_payment_methods                                 *)

Pre_add_payment_method(s, user_id, method) ==
    FirstFailure(<<
        <<"R1", user_id \in DOMAIN s.balances>>,
        <<"R2", "type" \in DOMAIN method>>,
        <<"R3", "type" \notin DOMAIN method \/ method["type"] \in PaymentTypes>> >>)

\* the method put in front of the user's list
Apply_add_payment_method_front(s, user_id, method) ==
    [s EXCEPT !.payment_methods = DictSet(s.payment_methods, user_id,
                  <<method>> \o Get(s.payment_methods, user_id, <<>>))]

Apply_add_payment_method(s, user_id, method) ==
    [s EXCEPT !.payment_methods = DictSet(s.payment_methods, user_id,
                  Append(Get(s.payment_methods, user_id, <<>>), method))]

Post_add_payment_method(s, t, user_id, method) ==
    FirstFailure(<<
        <<"E1", user_id \in DOMAIN t.payment_methods>>,
        <<"E2", \E i \in 1..Len(t.payment_methods[user_id]) :
                    t.payment_methods[user_id][i] = method>>,
        <<"E3", Len(t.payment_methods[user_id])
                    = Len(Get(s.payment_methods, user_id, <<>>)) + 1>>,
        <<"E4", SameBalances(s, t, {})>> >>)

Pre_get_payment_methods(s, user_id) ==
    FirstFailure(<< <<"R1", user_id \in DOMAIN s.balances>> >>)

Result_get_payment_methods(s, user_id) ==
    Get(s.payment_methods, user_id, <<>>)

-----------------------------------------------------------------------------
(* track_transactions                                                      *)

\* the preconditions with a page size of 101 let through
Pre_track_transactions_wide(s, user_id, filters, page, page_size) ==
    FirstFailure(<<
        <<"R1", user_id \in DOMAIN s.balances>>,
        <<"R2", page >= 1>>,
        <<"R3", 1 <= page_size /\ page_size <= 101>> >>)

Pre_track_transactions(s, user_id, filters, page, page_size) ==
    FirstFailure(<<
        <<"R1", user_id \in DOMAIN s.balances>>,
        <<"R2", page >= 1>>,
        <<"R3", 1 <= page_size /\ page_size <= 100>> >>)

Involves(t, user_id) ==
    \/ Get(t, "user_id", None) = user_id
    \/ Get(t, "from", None) = user_id
    \/ Get(t, "to", None) = user_id

\* the filtering with a record kept as soon as one filter key matches
RECURSIVE SelectTx_any(_, _, _)
SelectTx_any(txs, user_id, filters) ==
    IF txs = <<>> THEN <<>>
    ELSE LET t == Head(txs)
             keep == /\ Involves(t, user_id)
                     /\ (filters = EmptyDict
                         \/ \E k \in DOMAIN filters : Get(t, k, None) = filters[k])
         IN  (IF keep THEN <<t>> ELSE <<>>)
                 \o SelectTx_any(Tail(txs), user_id, filters)

\* [t for t in txs if keep(t)]
RECURSIVE SelectTx(_, _, _)
SelectTx(txs, user_id, filters) ==
    IF txs = <<>> THEN <<>>
    ELSE LET t == Head(txs)
             keep == /\ Involves(t, user_id)
                     /\ \A k \in DOMAIN filters : Get(t, k, None) = filters[k]
         IN  (IF keep THEN <<t>> ELSE <<>>) \o SelectTx(Tail(txs), user_id, filters)

\* list.sort(key=timestamp, reverse=True): stable, newest first
\* the insertion with a record put in front of those of the same timestamp
RECURSIVE InsertDesc_unstable(_, _)
InsertDesc_unstable(sorted, t) ==
    IF sorted = <<>> THEN <<t>>
    ELSE IF Head(sorted).timestamp > t.timestamp
         THEN <<Head(sorted)>> \o InsertDesc_unstable(Tail(sorted), t)
         ELSE <<t>> \o sorted

RECURSIVE InsertDesc(_, _)
InsertDesc(sorted, t) ==
    IF sorted = <<>> THEN <<t>>
    ELSE IF Head(sorted).timestamp >= t.timestamp
         THEN <<Head(sorted)>> \o InsertDesc(Tail(sorted), t)
         ELSE <<t>> \o sorted

RECURSIVE SortDesc(_, _)
SortDesc(txs, acc) ==
    IF txs = <<>> THEN acc ELSE SortDesc(Tail(txs), InsertDesc(acc, Head(txs)))

\* a slice that starts one element late
Slice_late(seq, start, end) ==
    IF start >= Len(seq) THEN <<>>
    ELSE SubSeq(seq, start + 2, IF end < Len(seq) THEN end + 1 ELSE Len(seq))

\* txs[start:end]
Slice(seq, start, end) ==
    IF start >= Len(seq) THEN <<>>
    ELSE SubSeq(seq, start + 1, IF end < Len(seq) THEN end ELSE Len(seq))

Result_track_transactions(s, user_id, filters, page, page_size) ==
    LET txs == SortDesc(SelectTx(s.transactions, user_id, filters), <<>>)
        start == (page - 1) * page_size
    IN  Slice(txs, start, start + page_size)

Post_track_transactions(s, result, user_id, page_size) ==
    FirstFailure(<<
        <<"E1", Len(result) <= page_size>>,
        <<"E2", \A i \in 1..Len(result) : Involves(result[i], user_id)>>,
        <<"E3", \A i \in 1..(Len(result) - 1) :
                    result[i].timestamp >= result[i + 1].timestamp>>,
        <<"E4", SameBalances(s, s, {})>> >>)

-----------------------------------------------------------------------------
(* The public operations as actions.  A call that raises keeps whatever it *)
(* had already written: nothing is rolled back.  call records the last     *)
(* call and how it ended ("ok", or the tag of the assertion that failed),  *)
(* old the state it started from.                                          *)

Commit(t, op, args, outcome, result) ==
    /\ balances' = t.balances
    /\ balance_keys' = t.balance_keys
    /\ transactions' = t.transactions
    /\ user_pins' = t.user_pins
    /\ payment_methods' = t.payment_methods
    /\ spending_limits' = t.spending_limits
    /\ call' = [op |-> op, args |-> args, outcome |-> outcome, result |-> result]
    /\ old' = State
    /\ running' = running

create_account(user_id, email, password) ==
    LET pre == Pre_create_account(State, user_id, email, password)
        t == Apply_create_account(State, user_id)
        args == <<user_id, email, password>>
    IN  IF pre # "ok" THEN Commit(State, "create_account", args, pre, None)
        ELSE Commit(t, "create_account", args,
                    Post_create_account(State, t, user_id), None)

\* set_pin that opens an account for a user it does not know
set_pin_creating(user_id, pin) ==
    LET s == IF user_id \in DOMAIN balances THEN State
             ELSE Apply_create_account(State, user_id)
        pre == Pre_set_pin(s, user_id, pin)
        t == Apply_set_pin(s, user_id, pin)
    IN  IF pre # "ok" THEN Commit(s, "set_pin", <<user_id, pin>>, pre, None)
        ELSE Commit(t, "set_pin", <<user_id, pin>>,
                    Post_set_pin(s, t, user_id, pin), None)

set_pin(user_id, pin) ==
    LET pre == Pre_set_pin(State, user_id, pin)
        t == Apply_set_pin(State, user_id, pin)
    IN  IF pre # "ok" THEN Commit(State, "set_pin", <<user_id, pin>>, pre, None)
        ELSE Commit(t, "set_pin", <<user_id, pin>>,
                    Post_set_pin(State, t, user_id, pin), None)

\* authenticate_pin that remembers the PIN it was asked about
authenticate_pin_recording(user_id, pin) ==
    LET pre == Pre_authenticate_pin(State, user_id, pin)
    IN  IF pre # "ok"
        THEN Commit(State, "authenticate_pin", <<user_id, pin>>, pre, None)
        ELSE Commit(Apply_set_pin(State, user_id, pin), "authenticate_pin",
                    <<user_id, pin>>, "ok",
                    Result_authenticate_pin(State, user_id, pin))

authenticate_pin(user_id, pin) ==
    LET pre == Pre_authenticate_pin(State, user_id, pin)
    IN  IF pre # "ok"
        THEN Commit(State, "authenticate_pin", <<user_id, pin>>, pre, None)
        ELSE Commit(State, "authenticate_pin", <<user_id, pin>>, "ok",
                    Result_authenticate_pin(State, user_id, pin))

add_funds(user_id, amount, now) ==
    LET pre == Pre_add_funds(State, user_id, amount)
        t == Apply_add_funds(State, user_id, amount, now)
    IN  IF pre # "ok" THEN Commit(State, "add_funds", <<user_id, amount>>, pre, None)
        ELSE Commit(t, "add_funds", <<user_id, amount>>,
                    Post_add_funds(State, t, user_id, amount), None)

withdraw_funds(user_id, bank_account, amount, now) ==
    LET pre == Pre_withdraw_funds(State, user_id, bank_account, amount)
        t == Apply_withdraw_funds(State, user_id, bank_account, amount, now)
        args == <<user_id, bank_account, amount>>
    IN  IF pre # "ok" THEN Commit(State, "withdraw_funds", args, pre, None)
        ELSE Commit(t, "withdraw_funds", args,
                    Post_withdraw_funds(State, t, user_id, bank_account, amount),
                    None)

transfer(sender, receiver, amount, now) ==
    LET pre == Pre_transfer(State, sender, receiver, amount)
        t == Apply_transfer(State, sender, receiver, amount, now)
        args == <<sender, receiver, amount>>
    IN  IF pre # "ok" THEN Commit(State, "transfer", args, pre, None)
        ELSE Commit(t, "transfer", args,
                    Post_transfer(State, t, sender, receiver, amount), None)

apply_interest(rate, nows) ==
    LET pre == Pre_apply_interest(State, rate)
        t == Apply_apply_interest(State, rate, nows)
    IN  IF pre # "ok" THEN Commit(State, "apply_interest", <<rate>>, pre, None)
        ELSE Commit(t, "apply_interest", <<rate>>,
                    Post_apply_interest(State, t, rate), None)

real_time_update(user_id, amount, now) ==
    LET pre == Pre_real_time_update(State, user_id, amount)
        t == Apply_real_time_update(State, user_id, amount, now)
        args == <<user_id, amount>>
    IN  IF pre # "ok" THEN Commit(State, "real_time_update", args, pre, None)
        ELSE Commit(t, "real_time_update", args,
                    Post_real_time_update(State, t, user_id, amount), None)

set_spending_limits(user_id, daily, monthly) ==
    LET pre == Pre_set_spending_limits(State, user_id, daily, monthly)
        t == Apply_set_spending_limits(State, user_id, daily, monthly)
        args == <<user_id, daily, monthly>>
    IN  IF pre # "ok" THEN Commit(State, "set_spending_limits", args, pre, None)
        ELSE Commit(t, "set_spending_limits", args,
                    Post_set_spending_limits(State, t, user_id, daily, monthly),
                    None)

add_payment_method(user_id, method) ==
    LET pre == Pre_add_payment_method(State, user_id, method)
        t == Apply_add_payment_method(State, user_id, method)
        args == <<user_id, method>>
    IN  IF pre # "ok" THEN Commit(State, "add_payment_method", args, pre, None)
        ELSE Commit(t, "add_payment_method", args,
                    Post_add_payment_method(State, t, user_id, method), None)

get_payment_methods(user_id) ==
    LET pre == Pre_get_payment_methods(State, user_id)
    IN  IF pre # "ok" THEN Commit(State, "get_payment_methods", <<user_id>>, pre, None)
        ELSE Commit(State, "get_payment_methods", <<user_id>>, "ok",
                    Result_get_payment_methods(State, user_id))

track_transactions(user_id, filters, page, page_size) ==
    LET pre == Pre_track_transactions(State, user_id, filters, page, page_size)
        result == Result_track_transactions(State, user_id, filters, page, page_size)
        args == <<user_id, filters, page, page_size>>
    IN  IF pre # "ok" THEN Commit(State, "track_transactions", args, pre, None)
        ELSE Commit(State, "track_transactions", args,
                    Post_track_transactions(State, result, user_id, page_size),
                    IF Post_track_transactions(State, result, user_id, page_size) = "ok"
                    THEN result ELSE None)

-----------------------------------------------------------------------------
(* apply_interest called by a second thread.  The class has no lock, so    *)
(* the interpreter may switch threads between two iterations of the loop;  *)
(* running is <<>> while the thread is outside the call and otherwise      *)
(* holds the call's frame: its rate, the keys the loop has still to visit  *)
(* and the state its old_* locals were taken from.                         *)

\* lines 290-297: the preconditions, the old_* snapshot, list(keys())
begin_interest(rate) ==
    /\ running = <<>>
    /\ LET pre == Pre_apply_interest(State, rate)
       IN  IF pre # "ok"
           THEN Commit(State, "apply_interest", <<rate>>, pre, None)
           ELSE /\ running' = <<[rate |-> rate, keys |-> balance_keys,
                                 start |-> State]>>
                /\ UNCHANGED <<balances, balance_keys, transactions, user_pins,
                               payment_methods, spending_limits, call, old>>

\* an iteration that leaves the loop where it is
step_interest_idle(now) ==
    /\ running # <<>>
    /\ running[1].keys # <<>>
    /\ UNCHANGED vars

\* lines 298-308, for the next key
step_interest(now) ==
    /\ running # <<>>
    /\ running[1].keys # <<>>
    /\ LET t == interest_step(State, Head(running[1].keys), running[1].rate, now)
       IN  /\ balances' = t.balances
           /\ transactions' = t.transactions
    /\ running' = <<[running[1] EXCEPT !.keys = Tail(@)]>>
    /\ UNCHANGED <<balance_keys, user_pins, payment_methods, spending_limits,
                   call, old>>

\* lines 310-319: the postconditions against the snapshot, and the return
end_interest ==
    /\ running # <<>>
    /\ running[1].keys = <<>>
    /\ call' = [op |-> "apply_interest", args |-> <<running[1].rate>>,
                outcome |-> Post_apply_interest(running[1].start, State,
                                                running[1].rate),
                result |-> None]
    /\ old' = running[1].start
    /\ running' = <<>>
    /\ UNCHANGED <<balances, balance_keys, transactions, user_pins,
                   payment_methods, spending_limits>>

\* a call of verify_invariants by the client
check_invariants ==
    Commit(State, "verify_invariants", <<>>, "ok", verify_invariants(State))

-----------------------------------------------------------------------------
(* The five balance-changing operations as functions of the state they are *)
(* called in: how the call ends and the state it leaves.  nows holds what  *)
(* time.time() returns to the call.                                        *)

Ended(pre, s, t, post) ==
    IF pre # "ok" THEN [outcome |-> pre, state |-> s]
    ELSE [outcome |-> post, state |-> t]

Exec(s, op, args, nows) ==
    CASE op = "add_funds" ->
             Ended(Pre_add_funds(s, args[1], args[2]), s,
                   Apply_add_funds(s, args[1], args[2], nows[1]),
                   Post_add_funds(s, Apply_add_funds(s, args[1], args[2], nows[1]),
                                  args[1], args[2]))
      [] op = "withdraw_funds" ->
             Ended(Pre_withdraw_funds(s, args[1], args[2], args[3]), s,
                   Apply_withdraw_funds(s, args[1], args[2], args[3], nows[1]),
                   Post_withdraw_funds(s,
                       Apply_withdraw_funds(s, args[1], args[2], args[3], nows[1]),
                       args[1], args[2], args[3]))
      [] op = "transfer" ->
             Ended(Pre_transfer(s, args[1], args[2], args[3]), s,
                   Apply_transfer(s, args[1], args[2], args[3], nows[1]),
                   Post_transfer(s,
                       Apply_transfer(s, args[1], args[2], args[3], nows[1]),
                       args[1], args[2], args[3]))
      [] op = "apply_interest" ->
             Ended(Pre_apply_interest(s, args[1]), s,
                   Apply_apply_interest(s, args[1], nows),
                   Post_apply_interest(s, Apply_apply_interest(s, args[1], nows),
                                       args[1]))
      [] op = "real_time_update" ->
             Ended(Pre_real_time_update(s, args[1], args[2]), s,
                   Apply_real_time_update(s, args[1], args[2], nows[1]),
                   Post_real_time_update(s,
                       Apply_real_time_update(s, args[1], args[2], nows[1]),
                       args[1], args[2]))

Init ==
    /\ balances = EmptyState.balances
    /\ balance_keys = EmptyState.balance_keys
    /\ transactions = EmptyState.transactions
    /\ user_pins = EmptyState.user_pins
    /\ payment_methods = EmptyState.payment_methods
    /\ spending_limits = EmptyState.spending_limits
    /\ call = [op |-> "__init__", args |-> <<>>, outcome |-> "ok", result |-> None]
    /\ old = EmptyState
    /\ running = <<>>

-----------------------------------------------------------------------------
(* The calls the model makes.  Every specification starts from the empty   *)
(* WalletSystem and makes every public operation; they differ in the       *)
(* arguments they draw.                                                    *)

\* the longest transaction log the model grows
MaxTx == 3
\* the longest payment-method list the model grows
MaxMethods == 1

NextOver(I) ==
    \/ \E u \in I.user_ids, e \in I.emails, p \in I.passwords :
           create_account(u, e, p)
    \/ \E u \in I.aux_users, pin \in I.pins : set_pin(u, pin)
    \/ \E u \in I.aux_users, pin \in I.pins : authenticate_pin(u, pin)
    \/ \E u \in I.users, a \in I.deposits, now \in I.clock :
           Len(transactions) < I.max_tx /\ add_funds(u, a, now)
    \/ \E u \in I.users, b \in I.bank_accounts, a \in I.withdrawals, now \in I.clock :
           Len(transactions) < I.max_tx /\ withdraw_funds(u, b, a, now)
    \/ \E u \in I.users, v \in I.users, a \in I.transfers, now \in I.clock :
           Len(transactions) < I.max_tx /\ transfer(u, v, a, now)
    \/ \E r \in I.rates, nows \in [1..Len(balance_keys) -> I.clock] :
           Len(transactions) + Len(balance_keys) <= I.max_tx /\ apply_interest(r, nows)
    \/ \E u \in I.users, a \in I.updates, now \in I.clock :
           Len(transactions) < I.max_tx /\ real_time_update(u, a, now)
    \/ \E u \in I.aux_users, l \in I.limits : set_spending_limits(u, l[1], l[2])
    \/ \E u \in I.aux_users, m \in I.methods :
           Len(Get(payment_methods, u, <<>>)) < I.max_methods /\ add_payment_method(u, m)
    \/ \E u \in I.aux_users : get_payment_methods(u)
    \/ \E u \in I.aux_users, q \in I.queries : track_transactions(u, q[1], q[2], q[3])

\* amounts: 0.05, 300.0, 10000.0, -300.0, 0.0, inf
Inputs ==
    [user_ids |-> {"alice", "bob", ""},
     users |-> {"alice", "bob"},
     aux_users |-> {"alice"},
     emails |-> {"a@example.com", "example.com"},
     passwords |-> {"password123", "12345"},
     pins |-> {"1234", "12a4"},
     bank_accounts |-> {"PT500123456789", "INVALID"},
     clock |-> {1},
     deposits |-> {300 * UNIT, 0},
     withdrawals |-> {300 * UNIT},
     transfers |-> {300 * UNIT, 0},
     updates |-> {0 - 300 * UNIT, INF},
     rates |-> {1, 5},
     limits |-> {<<NoLimit, <<1000 * UNIT>> >>, << <<2000 * UNIT>>, <<1000 * UNIT>> >>},
     methods |-> {[type |-> "card"], [type |-> "crypto"]},
     queries |-> {<<EmptyDict, 1, 1>>, <<EmptyDict, 0, 1>>},
     max_tx |-> MaxTx,
     max_methods |-> MaxMethods]

Next == NextOver(Inputs)

Spec == Init /\ [][Next]_vars

\* one valid value for every argument that is not an amount
FewInputs ==
    [user_ids |-> {"alice", "bob"},
     users |-> {"alice", "bob"},
     aux_users |-> {"alice"},
     emails |-> {"a@example.com"},
     passwords |-> {"password123"},
     pins |-> {"1234"},
     bank_accounts |-> {"PT500123456789"},
     clock |-> {1},
     deposits |-> {1},
     withdrawals |-> {1},
     transfers |-> {1},
     updates |-> {1},
     rates |-> {1},
     limits |-> {<<NoLimit, <<1000 * UNIT>> >>},
     methods |-> {[type |-> "card"]},
     queries |-> {<<EmptyDict, 1, 1>>},
     max_tx |-> MaxTx,
     max_methods |-> MaxMethods]

\* amounts one quantum wide next to balances at and above 2^PREC quanta,
\* where neighbouring floats are two quanta apart
AbsorbInputs ==
    [FewInputs EXCEPT !.deposits = {1, Pow2(PREC)}]

NextAbsorb == NextOver(AbsorbInputs)

SpecAbsorb == Init /\ [][NextAbsorb]_vars

\* a receiver credited up to the largest finite float, so that a transfer
\* of 300.0 to it overflows; amounts 0.0 and 300.0
OverflowInputs ==
    [FewInputs EXCEPT !.deposits = {300 * UNIT},
                      !.transfers = {0, 300 * UNIT},
                      !.updates = {RoundInt(DBL_MAX)}]

NextOverflow == NextOver(OverflowInputs)

SpecOverflow == Init /\ [][NextOverflow]_vars

\* rates -0.05, 0.0, 0.05, 0.20, 0.25 on balances of 300.0 and up to the
\* largest finite float, where balance * (1 + rate) overflows
RateInputs ==
    [FewInputs EXCEPT !.deposits = {300 * UNIT},
                      !.updates = {RoundInt(DBL_MAX)},
                      !.rates = {0 - 1, 0, 1, MAX_RATE, MAX_RATE + 1}]

NextRate == NextOver(RateInputs)

SpecRate == Init /\ [][NextRate]_vars

\* credits and debits of -51.0, -50.0, 0.0, +inf, -inf on balances of 50.0
DebitInputs ==
    [FewInputs EXCEPT !.deposits = {50 * UNIT},
                      !.updates = {0 - 51 * UNIT, 0 - 50 * UNIT, 0, INF, 0 - INF}]

NextDebit == NextOver(DebitInputs)

SpecDebit == Init /\ [][NextDebit]_vars

\* a clock that returns 1 or 2 to each call, in any order, and queries with
\* no filter, one filter key and two filter keys, pages 0..3 and page sizes
\* 0, 1, 2, 100, 101; the other calls are ones the wallet rejects
TrackQueries ==
    {<<f, page, size>> :
        f \in {EmptyDict, [type |-> "deposit"],
               [type |-> "deposit", timestamp |-> 2]},
        page \in 0..3,
        size \in {0, 1, 2, 100, 101}}

TrackInputs ==
    [FewInputs EXCEPT !.clock = {1, 2},
                      !.pins = {"12a4"},
                      !.withdrawals = {0},
                      !.updates = {0},
                      !.rates = {0},
                      !.limits = {<< <<2000 * UNIT>>, <<1000 * UNIT>> >>},
                      !.methods = {[type |-> "crypto"]},
                      !.queries = TrackQueries]

NextTrack == NextOver(TrackInputs)

SpecTrack == Init /\ [][NextTrack]_vars

\* PINs of every kind for two users, every other operation rejected
PinInputs ==
    [FewInputs EXCEPT !.aux_users = {"alice", "bob"},
                      !.pins = {"1234", "87654321", "²³¹²",
                                "12a4", "123", "123456789", ""},
                      !.deposits = {0},
                      !.withdrawals = {0},
                      !.transfers = {0},
                      !.updates = {0},
                      !.rates = {0},
                      !.limits = {<< <<2000 * UNIT>>, <<1000 * UNIT>> >>},
                      !.methods = {[type |-> "crypto"]}]

NextPin == NextOver(PinInputs)
SpecPin == Init /\ [][NextPin]_vars

\* limits of every kind for two users, every other operation rejected
LimitInputs ==
    [FewInputs EXCEPT !.aux_users = {"alice", "bob"},
                      !.pins = {"12a4"},
                      !.deposits = {0},
                      !.withdrawals = {0},
                      !.transfers = {0},
                      !.updates = {0},
                      !.rates = {0},
                      !.limits = {<<NoLimit, NoLimit>>,
                                  << <<0>>, NoLimit>>,
                                  << <<0 - UNIT>>, NoLimit>>,
                                  <<NoLimit, <<0>> >>,
                                  << <<NAN>>, NoLimit>>,
                                  << <<2000 * UNIT>>, <<1000 * UNIT>> >>,
                                  << <<100 * UNIT>>, <<100 * UNIT>> >>,
                                  << <<100 * UNIT>>, <<1000 * UNIT>> >>,
                                  << <<INF>>, <<INF>> >>},
                      !.methods = {[type |-> "crypto"]}]

NextLimit == NextOver(LimitInputs)
SpecLimit == Init /\ [][NextLimit]_vars

\* payment methods of every kind for two users, deposits to give the
\* balances values
MethodInputs ==
    [FewInputs EXCEPT !.aux_users = {"alice", "bob"},
                      !.pins = {"12a4"},
                      !.withdrawals = {0},
                      !.transfers = {0},
                      !.updates = {0},
                      !.rates = {0},
                      !.limits = {<< <<2000 * UNIT>>, <<1000 * UNIT>> >>},
                      !.methods = {[type |-> "card"], [type |-> "paypal"],
                                   [type |-> "crypto"], [name |-> "card"]},
                      !.max_tx = 1,
                      !.max_methods = MaxMethods + 1]

NextMethod == NextOver(MethodInputs)
SpecMethod == Init /\ [][NextMethod]_vars

\* two threads: one makes the public operations, each in one step, the other
\* calls apply_interest and can be interrupted between two accounts
ThreadInputs ==
    [FewInputs EXCEPT !.aux_users = {"carol"},
                      !.deposits = {300 * UNIT},
                      !.withdrawals = {0},
                      !.transfers = {100 * UNIT},
                      !.updates = {0},
                      !.rates = {1},
                      !.max_tx = MaxTx + 1]

NextThread ==
    \/ NextOver(ThreadInputs)
    \/ \E r \in ThreadInputs.rates :
           /\ Len(transactions) + Len(balance_keys) <= MaxTx
           /\ begin_interest(r)
    \/ \E now \in ThreadInputs.clock : step_interest(now)
    \/ end_interest

SpecThread == Init /\ [][NextThread]_vars

\* verify_invariants on systems whose fields were written directly, as the
\* tests do: balances that are negative, nan or inf, and PIN, payment-method
\* and spending-limit records of ghost_user, who has no account
InvBalances ==
    {<<EmptyDict, <<>> >>,
     <<[alice |-> 0], <<"alice">> >>,
     <<[alice |-> 0 - 100 * UNIT], <<"alice">> >>,
     <<[alice |-> NAN], <<"alice">> >>,
     <<[alice |-> INF], <<"alice">> >>,
     <<[alice |-> UNIT, bob |-> 0 - 1], <<"alice", "bob">> >>}

InvPins == {EmptyDict, [alice |-> "1234"], [ghost_user |-> "1234"]}

InvMethods == {EmptyDict, [alice |-> <<[type |-> "card"]>>], [ghost_user |-> <<>>]}

InvLimits ==
    {EmptyDict,
     [ghost_user |-> [daily |-> NoLimit, monthly |-> NoLimit,
                      daily_used |-> 0, monthly_used |-> 0]]}

InitInv ==
    \E b \in InvBalances, p \in InvPins, m \in InvMethods, l \in InvLimits :
        /\ balances = b[1]
        /\ balance_keys = b[2]
        /\ transactions = <<>>
        /\ user_pins = p
        /\ payment_methods = m
        /\ spending_limits = l
        /\ call = [op |-> "__init__", args |-> <<>>, outcome |-> "ok", result |-> None]
        /\ old = [balances |-> b[1], balance_keys |-> b[2], transactions |-> <<>>,
                  user_pins |-> p, payment_methods |-> m, spending_limits |-> l]
        /\ running = <<>>

InvInputs == [FewInputs EXCEPT !.max_tx = 1]

NextInv ==
    \/ check_invariants
    \/ NextOver(InvInputs)

SpecInv == InitInv /\ [][NextInv]_vars

\* limits of 0.05 a day and a month, and amounts above them
InertInputs ==
    [FewInputs EXCEPT !.deposits = {4},
                      !.withdrawals = {2},
                      !.transfers = {2},
                      !.updates = {0 - 2},
                      !.limits = {<< <<1>>, <<1>> >>}]

NextInert == NextOver(InertInputs)
SpecInert == Init /\ [][NextInert]_vars

\* the non-monetary operations for two users who may hold a balance
FrameInputs ==
    [FewInputs EXCEPT !.aux_users = {"alice", "bob"},
                      !.pins = {"1234", "4321"},
                      !.withdrawals = {0},
                      !.transfers = {0},
                      !.updates = {0},
                      !.rates = {0},
                      !.max_tx = 1]

NextFrame == NextOver(FrameInputs)
SpecFrame == Init /\ [][NextFrame]_vars

-----------------------------------------------------------------------------
(* walletBackup.WalletSystem.apply_interest: integer balances, the rate in *)
(* units of 1/10000.  The class has no constructor; its caller provides    *)
(* the balances and the log.                                                *)

\* sum of the finite balances of a state in exact arithmetic
RECURSIVE ExactSum(_, _)
ExactSum(b, keys) ==
    IF keys = <<>> THEN 0 ELSE b[Head(keys)] + ExactSum(b, Tail(keys))

\* the loop over self.balances; the records are collected in txs
RECURSIVE Backup_interest_loop(_, _, _, _)
Backup_interest_loop(b, keys, factor, txs) ==
    IF keys = <<>> THEN [balances |-> b, txs |-> txs]
    ELSE LET user == Head(keys)
             old_balance == b[user]
             new_balance == (old_balance * factor) \div 10000
             interest == new_balance - old_balance
         IN  Backup_interest_loop(
                 [b EXCEPT ![user] = new_balance], Tail(keys), factor,
                 Append(txs, [id |-> Len(transactions) + Len(txs) + 1,
                              type |-> "interest", user_id |-> user,
                              amount |-> interest, status |-> "completed"]))

Backup_apply_interest(rate) ==
    IF ~(rate > 0)
    THEN Commit(State, "walletBackup.apply_interest", <<rate>>, "R1", None)
    ELSE LET total_before == ExactSum(balances, balance_keys)
             factor == 10000 + rate
             r == Backup_interest_loop(balances, balance_keys, factor, <<>>)
             t == [State EXCEPT !.balances = r.balances,
                                !.transactions = @ \o r.txs]
             total_after == ExactSum(t.balances, balance_keys)
             expected_total == (total_before * factor) \div 10000
         IN  Commit(t, "walletBackup.apply_interest", <<rate>>,
                    IF total_after = expected_total THEN "ok" ELSE "E1", None)

\* balances in minor units and rates of 0 %, 1 % and 5 %
BackupAmounts == {0, 1, 100, 150, 200}
BackupRates == {0, 100, 500}

InitBackup ==
    /\ \/ balance_keys = <<>> /\ balances = EmptyDict
       \/ /\ balance_keys = <<"alice">>
          /\ balances \in [{"alice"} -> BackupAmounts]
       \/ /\ balance_keys = <<"alice", "bob">>
          /\ balances \in [{"alice", "bob"} -> BackupAmounts]
    /\ transactions = <<>>
    /\ user_pins = EmptyDict
    /\ payment_methods = EmptyDict
    /\ spending_limits = EmptyDict
    /\ call = [op |-> "__init__", args |-> <<>>, outcome |-> "ok", result |-> None]
    /\ old = EmptyState
    /\ running = <<>>

NextBackup ==
    \E rate \in BackupRates :
        /\ Len(transactions) + Len(balance_keys) <= MaxTx
        /\ Backup_apply_interest(rate)

SpecBackup == InitBackup /\ [][NextBackup]_vars

\* one thread: apply_interest runs statement by statement and no other
\* operation starts before it has returned or raised.  The interpreter
\* executes the next statement of a call in progress, hence the fairness.
LoopInputs ==
    [FewInputs EXCEPT !.aux_users = {"carol"},
                      !.deposits = {300 * UNIT},
                      !.withdrawals = {0},
                      !.transfers = {0},
                      !.updates = {0},
                      !.rates = {1, 0}]

NextLoop ==
    \/ running = <<>> /\ NextOver(LoopInputs)
    \/ \E r \in LoopInputs.rates :
           /\ Len(transactions) + Len(balance_keys) <= LoopInputs.max_tx
           /\ begin_interest(r)
    \/ \E now \in LoopInputs.clock : step_interest(now)
    \/ end_interest

\* the call in progress ends: the loop is through and the frame is popped,
\* which is what end_interest does and nothing else
frame_popped ==
    /\ running # <<>>
    /\ running[1].keys = <<>>
    /\ running' = <<>>

SpecLoop ==
    /\ Init
    /\ [][NextLoop]_vars
    /\ WF_vars(\E now \in LoopInputs.clock : step_interest(now))
    /\ WF_running(frame_popped)

\* withdrawals around the ceiling of 10000.0 from balances that cover them:
\* 0.0, 0.05, 10000.0, 10001.0 against deposits of 10001.0
WithdrawInputs ==
    [FewInputs EXCEPT !.deposits = {(WITHDRAW_LIMIT + 1) * UNIT},
                      !.withdrawals = {0, 1, WITHDRAW_LIMIT * UNIT,
                                       (WITHDRAW_LIMIT + 1) * UNIT},
                      !.bank_accounts = {"PT500123456789", "INVALID", "PT123"}]

NextWithdraw == NextOver(WithdrawInputs)

SpecWithdraw == Init /\ [][NextWithdraw]_vars

\* balances 0.25, 600.0, 700.0 under rates 0.05 and 0.10; every other call
\* is one the wallet rejects, so the balances come from deposits alone
InterestInputs ==
    [FewInputs EXCEPT !.aux_users = {"carol"},
                      !.deposits = {5, 600 * UNIT, 700 * UNIT},
                      !.withdrawals = {0},
                      !.transfers = {0},
                      !.updates = {0},
                      !.rates = {1, 2},
                      !.max_tx = MaxTx + 1]

NextInterest == NextOver(InterestInputs)

SpecInterest == Init /\ [][NextInterest]_vars

-----------------------------------------------------------------------------
(* Properties                                                              *)

\* the last call was rejected by a precondition / returned without raising
RTags == {"R1", "R2", "R3", "R4", "R5"}
Accepted == call.outcome \notin RTags
Succeeded == call.outcome = "ok"

AllFinite(b) == \A u \in DOMAIN b : IsFinite(b[u])

\* C1: after any sequence of calls, accepted or rejected, every balance is >= 0
C1_NonNegative ==
    \A u \in DOMAIN balances : FGe(balances[u], 0)

\* C1 witness: a withdrawal of the whole balance went through and left 0
C1_Witness ==
    /\ call.op = "withdraw_funds"
    /\ Succeeded
    /\ old.balances[call.args[1]] > 0
    /\ balances[call.args[1]] = 0

\* C3: a call that raises, on a precondition or on a postcondition, leaves
\* balances, log, PINs, payment methods and spending limits as they were
C3_AllOrNothing ==
    ~Succeeded => State = old

\* C4 as stated: a transfer is accepted exactly when both accounts exist, they
\* differ, the amount is positive and the sender's balance covers it (looked
\* at only where every balance is finite, that is where no earlier call has
\* left an infinite balance behind)
C4_AcceptedIff_Original ==
    (call.op = "transfer" /\ AllFinite(old.balances)) =>
        LET a == call.args[1]
            b == call.args[2]
            amt == call.args[3]
        IN  Accepted <=> /\ a \in DOMAIN old.balances
                         /\ b \in DOMAIN old.balances
                         /\ a # b
                         /\ FGt(amt, 0)
                         /\ FGe(old.balances[a], amt)

\* C4 amended: a transfer is accepted exactly when both accounts exist (else
\* R1), they differ (else R2), the amount is positive (else R3), the sender's
\* balance covers it (else R4) and the receiver's balance plus the amount stays
\* below infinity (else R5); a transfer of the whole balance leaves exactly 0
C4_AcceptedIff ==
    call.op = "transfer" =>
        LET a == call.args[1]
            b == call.args[2]
            amt == call.args[3]
            exist == a \in DOMAIN old.balances /\ b \in DOMAIN old.balances
            differ == exist /\ a # b
            positive == differ /\ FGt(amt, 0)
            covered == positive /\ FGe(old.balances[a], amt)
            fits == covered /\ FLt(FAdd(old.balances[b], amt), INF)
        IN  /\ call.outcome = "R1" <=> ~exist
            /\ call.outcome = "R2" <=> exist /\ ~differ
            /\ call.outcome = "R3" <=> differ /\ ~positive
            /\ call.outcome = "R4" <=> positive /\ ~covered
            /\ call.outcome = "R5" <=> covered /\ ~fits
            /\ Accepted <=> fits
            /\ (Succeeded /\ amt = old.balances[a]) => balances[a] = 0

\* C4 witness: a transfer of the sender's whole balance went through
C4_Witness ==
    /\ call.op = "transfer"
    /\ Succeeded
    /\ call.args[3] = old.balances[call.args[1]]
    /\ balances[call.args[1]] = 0
    /\ balances[call.args[2]] = old.balances[call.args[2]] + call.args[3]

\* the accounts other than the named ones kept their balances
OthersUnchanged(named) ==
    /\ DOMAIN balances = DOMAIN old.balances
    /\ \A u \in DOMAIN balances \ named : balances[u] = old.balances[u]

\* C2: a successful transfer takes exactly the amount from the sender, gives
\* exactly the amount to the receiver, leaves every other balance alone and
\* leaves the sum of all balances unchanged
C2_Conservation ==
    (call.op = "transfer" /\ Succeeded /\ AllFinite(old.balances)) =>
        LET a == call.args[1]
            b == call.args[2]
            amt == call.args[3]
        IN  /\ balances[a] = old.balances[a] - amt
            /\ balances[b] = old.balances[b] + amt
            /\ OthersUnchanged({a, b})
            /\ ExactSum(balances, balance_keys)
                   = ExactSum(old.balances, old.balance_keys)

\* C5: a successful add_funds raises the balance by exactly the amount, leaves
\* the other balances alone, raises the sum by exactly the amount and appends
\* one completed 'deposit' record of that user and amount as the last entry
C5_AddFundsEffect ==
    (call.op = "add_funds" /\ Succeeded /\ AllFinite(old.balances)) =>
        LET u == call.args[1]
            amt == call.args[2]
        IN  /\ balances[u] = old.balances[u] + amt
            /\ OthersUnchanged({u})
            /\ ExactSum(balances, balance_keys)
                   = ExactSum(old.balances, old.balance_keys) + amt
            /\ Len(transactions) = Len(old.transactions) + 1
            /\ SubSeq(transactions, 1, Len(old.transactions)) = old.transactions
            /\ LastTx(State).type = "deposit"
            /\ LastTx(State).user_id = u
            /\ LastTx(State).amount = amt
            /\ LastTx(State).status = "completed"

\* C6: add_funds is accepted exactly when the account exists and the amount
\* is above 0 and at most 1,000,000, whatever the balance; an unknown user is
\* R1, an amount of 0 or less R2, an amount above the ceiling R3
C6_AcceptedIff ==
    call.op = "add_funds" =>
        LET u == call.args[1]
            amt == call.args[2]
            exists == u \in DOMAIN old.balances
            positive == exists /\ FGt(amt, 0)
            capped == positive /\ FLe(amt, SAFETY_LIMIT * UNIT)
        IN  /\ Accepted <=> capped
            /\ ~exists => call.outcome = "R1"
            /\ (exists /\ ~positive) => call.outcome = "R2"
            /\ (positive /\ ~capped) => call.outcome = "R3"

\* C7: a successful withdraw_funds lowers the balance by exactly the amount,
\* leaves the other balances alone, lowers the sum by exactly the amount and
\* appends one 'withdrawal' record of that user, amount and destination
C7_WithdrawEffect ==
    (call.op = "withdraw_funds" /\ Succeeded /\ AllFinite(old.balances)) =>
        LET u == call.args[1]
            bank == call.args[2]
            amt == call.args[3]
        IN  /\ balances[u] = old.balances[u] - amt
            /\ OthersUnchanged({u})
            /\ ExactSum(balances, balance_keys)
                   = ExactSum(old.balances, old.balance_keys) - amt
            /\ Len(transactions) = Len(old.transactions) + 1
            /\ SubSeq(transactions, 1, Len(old.transactions)) = old.transactions
            /\ LastTx(State).type = "withdrawal"
            /\ LastTx(State).user_id = u
            /\ LastTx(State).amount = amt
            /\ LastTx(State).destination = bank

\* C8: withdraw_funds is accepted exactly when the account exists, the bank
\* account starts with "PT" and has at least 10 characters, the amount is
\* above 0 and at most 10,000 and the balance covers it; "INVALID" and "PT123"
\* are R2, 10,001 is R3 even when the balance covers it, an amount above the
\* balance is R4
C8_AcceptedIff ==
    call.op = "withdraw_funds" =>
        LET u == call.args[1]
            bank == call.args[2]
            amt == call.args[3]
            exists == u \in DOMAIN old.balances
            valid == exists /\ StartsWith(bank, "PT") /\ Len(bank) >= 10
            ranged == valid /\ FGt(amt, 0) /\ FLe(amt, WITHDRAW_LIMIT * UNIT)
            covered == ranged /\ FGe(old.balances[u], amt)
        IN  /\ Accepted <=> covered
            /\ (exists /\ bank \in {"INVALID", "PT123"}) => call.outcome = "R2"
            /\ (valid /\ amt = (WITHDRAW_LIMIT + 1) * UNIT) => call.outcome = "R3"
            /\ (ranged /\ ~covered) => call.outcome = "R4"

\* C8 witness: a withdrawal of 10,001 was rejected as R3 although the balance
\* covers it
C8_Witness ==
    /\ call.op = "withdraw_funds"
    /\ call.args[1] \in DOMAIN old.balances
    /\ call.args[2] = "PT500123456789"
    /\ call.args[3] = (WITHDRAW_LIMIT + 1) * UNIT
    /\ FGe(old.balances[call.args[1]], call.args[3])
    /\ call.outcome = "R3"
    /\ State = old

\* C9: a successful add_funds(u, x) followed directly by a successful
\* withdraw_funds(u, bank, x) leaves the balance of u as it was before the
\* add_funds and the log longer by one deposit and one withdrawal
C9_RoundTrip ==
    [][(/\ call.op = "add_funds"
        /\ call.outcome = "ok"
        /\ call'.op = "withdraw_funds"
        /\ call'.outcome = "ok"
        /\ call'.args[1] = call.args[1]
        /\ call'.args[3] = call.args[2])
       => /\ balances'[call.args[1]] = old.balances[call.args[1]]
          /\ Len(transactions') = Len(old.transactions) + 2
          /\ transactions'[Len(transactions') - 1].type = "deposit"
          /\ transactions'[Len(transactions')].type = "withdrawal"]_vars

\* C10 as stated: a successful apply_interest sets every balance to
\* old + old * rate, which equals old * (1 + rate), the sum becomes
\* old sum * (1 + rate), and the set of accounts is unchanged
C10_Scaling_Original ==
    (call.op = "apply_interest" /\ Succeeded) =>
        LET rate == call.args[1]
            factor == FAdd(UNIT, rate)
        IN  /\ DOMAIN balances = DOMAIN old.balances
            /\ \A u \in DOMAIN old.balances :
                   /\ balances[u] = FAdd(old.balances[u], FMul(old.balances[u], rate))
                   /\ balances[u] = FMul(old.balances[u], factor)
            /\ SumBalances(balances, balance_keys)
                   = FMul(SumBalances(old.balances, old.balance_keys), factor)

\* C10 amended: a successful apply_interest sets every balance to the float
\* old + old * rate, which is within 1e-9 of the float old * (1 + rate), the
\* sum is within 1e-6 of old sum * (1 + rate), and the set of accounts is
\* unchanged; rate 0.05 on {alice: 700, bob: 600} gives {alice: 735, bob: 630}
C10_Scaling ==
    (call.op = "apply_interest" /\ Succeeded) =>
        LET rate == call.args[1]
            factor == FAdd(UNIT, rate)
        IN  /\ DOMAIN balances = DOMAIN old.balances
            /\ balance_keys = old.balance_keys
            /\ \A u \in DOMAIN old.balances :
                   /\ balances[u] = FAdd(old.balances[u], FMul(old.balances[u], rate))
                   /\ FLt(FAbs(FSub(balances[u], FMul(old.balances[u], factor))), TOL9)
            /\ FLt(FAbs(FSub(SumBalances(balances, balance_keys),
                             FMul(SumBalances(old.balances, old.balance_keys),
                                  factor))), TOL6)
            /\ (rate = 1 /\ old.balances = [alice |-> 700 * UNIT, bob |-> 600 * UNIT])
                   => balances = [alice |-> 735 * UNIT, bob |-> 630 * UNIT]

\* C10 witness: rate 0.05 went through on {alice: 700, bob: 600}
C10_Witness ==
    /\ call.op = "apply_interest"
    /\ Succeeded
    /\ call.args[1] = 1
    /\ old.balances = [alice |-> 700 * UNIT, bob |-> 600 * UNIT]
    /\ balances = [alice |-> 735 * UNIT, bob |-> 630 * UNIT]
    /\ Len(transactions) = Len(old.transactions) + 2

\* C11: a successful apply_interest appends one 'interest' record per account
\* that existed at the call, accounts with balance 0 included (amount 0), in
\* the order the accounts were created, each with amount old balance * rate
C11_InterestLog ==
    (call.op = "apply_interest" /\ Succeeded) =>
        LET rate == call.args[1]
            n == Len(old.balance_keys)
            base == Len(old.transactions)
        IN  /\ n = Cardinality(DOMAIN old.balances)
            /\ Len(transactions) = base + n
            /\ \A i \in 1..n :
                   LET tx == transactions[base + i]
                       u == old.balance_keys[i]
                   IN  /\ tx.type = "interest"
                       /\ tx.user_id = u
                       /\ tx.amount = FMul(old.balances[u], rate)
                       /\ tx.status = "completed"
                       /\ old.balances[u] = 0 => tx.amount = 0

\* C11 witness: interest went through on bob (created first, 700.0) and alice
\* (created second, balance 0) and logged bob's 35.0 before alice's 0
C11_Witness ==
    /\ call.op = "apply_interest"
    /\ Succeeded
    /\ call.args[1] = 1
    /\ old.balance_keys = <<"bob", "alice">>
    /\ old.balances = [alice |-> 0, bob |-> 700 * UNIT]
    /\ Len(transactions) = Len(old.transactions) + 2
    /\ transactions[Len(transactions) - 1].user_id = "bob"
    /\ transactions[Len(transactions) - 1].amount = 35 * UNIT
    /\ transactions[Len(transactions)].user_id = "alice"
    /\ transactions[Len(transactions)].amount = 0

\* C12 as stated: apply_interest is accepted exactly when 0 < rate <= 0.20
\* (looked at only where every balance is finite)
C12_AcceptedIff_Original ==
    (call.op = "apply_interest" /\ AllFinite(old.balances)) =>
        (Accepted <=> RateOk(call.args[1]))

\* C12 amended: apply_interest is accepted exactly when 0 < rate <= 0.20 (else
\* R1) and balance * (1 + rate) stays below infinity for every account (else
\* R2); a call rejected on R1 or R2 changes nothing; with no accounts a valid
\* call succeeds and changes nothing
C12_AcceptedIff ==
    call.op = "apply_interest" =>
        LET rate == call.args[1]
            valid == FLt(0, rate) /\ FLe(rate, MAX_RATE)
            fits == valid /\ \A u \in DOMAIN old.balances :
                                 FLt(FMul(old.balances[u], FAdd(UNIT, rate)), INF)
        IN  /\ call.outcome = "R1" <=> ~valid
            /\ call.outcome = "R2" <=> valid /\ ~fits
            /\ Accepted <=> fits
            /\ ~Accepted => State = old
            /\ (valid /\ DOMAIN old.balances = {}) => Succeeded /\ State = old

\* C12 witness: a rate of exactly 0.20 went through on a positive balance
C12_Witness ==
    /\ call.op = "apply_interest"
    /\ call.args[1] = MAX_RATE
    /\ Succeeded
    /\ \E u \in DOMAIN old.balances :
           old.balances[u] > 0 /\ balances[u] > old.balances[u]

\* C13: a successful real_time_update adds the signed amount to the balance,
\* leaves the other balances alone, leaves the balance >= 0 and appends one
\* record of that user and signed amount, 'credit' for a positive amount and
\* 'debit' for a negative one
C13_UpdateEffect ==
    (call.op = "real_time_update" /\ Succeeded /\ AllFinite(old.balances)) =>
        LET u == call.args[1]
            amt == call.args[2]
        IN  /\ balances[u] = old.balances[u] + amt
            /\ OthersUnchanged({u})
            /\ balances[u] >= 0
            /\ Len(transactions) = Len(old.transactions) + 1
            /\ SubSeq(transactions, 1, Len(old.transactions)) = old.transactions
            /\ LastTx(State).user_id = u
            /\ LastTx(State).amount = amt
            /\ amt > 0 => LastTx(State).type = "credit"
            /\ amt < 0 => LastTx(State).type = "debit"

\* C14: on an existing account real_time_update is rejected as R2 for an
\* amount of 0 and as R3 for a debit larger than the balance, and it is
\* accepted for every positive amount and every debit the balance covers
C14_AcceptedIff ==
    (call.op = "real_time_update" /\ call.args[1] \in DOMAIN old.balances) =>
        LET bal == old.balances[call.args[1]]
            amt == call.args[2]
        IN  /\ amt = 0 => call.outcome = "R2"
            /\ (FLt(amt, 0) /\ FLt(bal, FAbs(amt))) => call.outcome = "R3"
            /\ (FGt(amt, 0) \/ (FLt(amt, 0) /\ FLe(FAbs(amt), bal))) => Accepted

ReadOnlyOps == {"authenticate_pin", "get_payment_methods", "track_transactions"}

\* how a read-only call ends when it is made in the current state
Again(op, args) ==
    CASE op = "authenticate_pin" ->
             LET pre == Pre_authenticate_pin(State, args[1], args[2])
             IN  IF pre # "ok" THEN <<pre, None>>
                 ELSE <<"ok", Result_authenticate_pin(State, args[1], args[2])>>
      [] op = "get_payment_methods" ->
             LET pre == Pre_get_payment_methods(State, args[1])
             IN  IF pre # "ok" THEN <<pre, None>>
                 ELSE <<"ok", Result_get_payment_methods(State, args[1])>>
      [] op = "track_transactions" ->
             LET pre == Pre_track_transactions(State, args[1], args[2], args[3], args[4])
                 result == Result_track_transactions(State, args[1], args[2],
                                                     args[3], args[4])
                 post == Post_track_transactions(State, result, args[1], args[4])
             IN  IF pre # "ok" THEN <<pre, None>>
                 ELSE IF post # "ok" THEN <<post, None>>
                 ELSE <<"ok", result>>

\* C16: authenticate_pin, get_payment_methods and track_transactions, accepted
\* or rejected, leave balances, PINs, payment methods, spending limits and the
\* log unchanged, and the same call made again right after it ends the same
\* way with the same result
C16_ReadOnly ==
    call.op \in ReadOnlyOps =>
        /\ State = old
        /\ Again(call.op, call.args)[1] = call.outcome
        /\ Again(call.op, call.args)[2] = call.result

\* C16 witness: track_transactions returned a record of a log of two or more
\* and left every field as it was
C16_Witness ==
    /\ call.op = "track_transactions"
    /\ Succeeded
    /\ Len(call.result) = 1
    /\ Len(transactions) >= 2
    /\ user_pins # EmptyDict
    /\ State = old

\* C17: in every reachable state every user with a PIN, a payment-method list
\* or a spending-limit record has an account
C17_ReferentialIntegrity ==
    /\ DOMAIN user_pins \subseteq DOMAIN balances
    /\ DOMAIN payment_methods \subseteq DOMAIN balances
    /\ DOMAIN spending_limits \subseteq DOMAIN balances

\* C17 witness: an account holds a PIN, a payment method and spending limits
C17_Witness ==
    \E u \in DOMAIN balances :
        /\ u \in DOMAIN user_pins
        /\ u \in DOMAIN payment_methods
        /\ u \in DOMAIN spending_limits

\* C18: no call removes an account, and the only call that adds one is a
\* successful create_account, which adds exactly its new identifier
C18_AccountLifecycle ==
    \/ /\ DOMAIN balances = DOMAIN old.balances
       /\ balance_keys = old.balance_keys
       /\ ~(call.op = "create_account" /\ Succeeded)
    \/ /\ call.op = "create_account"
       /\ Succeeded
       /\ call.args[1] \notin DOMAIN old.balances
       /\ DOMAIN balances = DOMAIN old.balances \cup {call.args[1]}
       /\ balance_keys = Append(old.balance_keys, call.args[1])

\* C18 witness: a second account was opened next to one that holds money
C18_Witness ==
    /\ call.op = "create_account"
    /\ Succeeded
    /\ Cardinality(DOMAIN old.balances) = 1
    /\ Cardinality(DOMAIN balances) = 2
    /\ \E u \in DOMAIN old.balances : old.balances[u] > 0

\* C19: create_account succeeds only for a non-empty unused identifier, an
\* email with '@' and a password of 6 or more characters; on success the new
\* balance is 0, there is one account more and the existing balances are
\* unchanged; a duplicate identifier is rejected as R2 and keeps its balance
C19_CreateAccount ==
    call.op = "create_account" =>
        LET id == call.args[1]
            email == call.args[2]
            password == call.args[3]
        IN  /\ Succeeded => /\ id # ""
                            /\ id \notin DOMAIN old.balances
                            /\ Contains(email, "@")
                            /\ Len(password) >= 6
                            /\ balances[id] = 0
                            /\ Cardinality(DOMAIN balances)
                                   = Cardinality(DOMAIN old.balances) + 1
                            /\ \A u \in DOMAIN old.balances :
                                   balances[u] = old.balances[u]
            /\ id \in DOMAIN old.balances => /\ call.outcome = "R2"
                                             /\ balances = old.balances

\* C19 witness: a duplicate identifier was turned down as R2 and its balance
\* of 300.0 stayed
C19_Witness ==
    /\ call.op = "create_account"
    /\ call.outcome = "R2"
    /\ call.args[1] \in DOMAIN old.balances
    /\ old.balances[call.args[1]] = 300 * UNIT
    /\ balances[call.args[1]] = 300 * UNIT

\* C20: after every call the log before the call is an unchanged prefix of
\* the log after it
C20_AppendOnly ==
    /\ Len(transactions) >= Len(old.transactions)
    /\ SubSeq(transactions, 1, Len(old.transactions)) = old.transactions

\* C20 witness: a call appended to a log that already held a record
C20_Witness ==
    /\ Len(old.transactions) >= 1
    /\ Len(transactions) = Len(old.transactions) + 1
    /\ SubSeq(transactions, 1, Len(old.transactions)) = old.transactions
    /\ transactions[Len(transactions)].type = "transfer"

\* C21: the timestamps in the log never decrease from one record to the
\* next, whatever the clock returns to successive calls
C21_MonotoneTimestamps ==
    \A i \in 1..Len(transactions), j \in 1..Len(transactions) :
        i < j => transactions[i].timestamp <= transactions[j].timestamp

\* the record names the user as its user_id, its sender or its receiver
IsParty(t, u) ==
    \/ ("user_id" \in DOMAIN t /\ t.user_id = u)
    \/ ("from" \in DOMAIN t /\ t.from = u)
    \/ ("to" \in DOMAIN t /\ t.to = u)

\* the record has every filter key with the filter's value
MatchesAll(t, filters) ==
    \A k \in DOMAIN filters : k \in DOMAIN t /\ t[k] = filters[k]

\* C22: track_transactions returns only records of the log in which the user
\* is the user_id, the sender or the receiver and which equal the filter on
\* every filter key, at most page_size of them, newest timestamp first
C22_TrackResult ==
    (call.op = "track_transactions" /\ Succeeded) =>
        LET u == call.args[1]
            filters == call.args[2]
            size == call.args[4]
            result == call.result
        IN  /\ Len(result) <= size
            /\ \A i \in 1..Len(result) :
                   /\ \E j \in 1..Len(transactions) : transactions[j] = result[i]
                   /\ IsParty(result[i], u)
                   /\ MatchesAll(result[i], filters)
            /\ \A i \in 1..Len(result), j \in 1..Len(result) :
                   i < j => result[i].timestamp >= result[j].timestamp

\* C22 witness: with the filters type = deposit and timestamp = 2 the call
\* returned alice's later deposit from a log that also holds her earlier
\* deposit and a transfer she sent
C22_Witness ==
    /\ call.op = "track_transactions"
    /\ Succeeded
    /\ call.args[1] = "alice"
    /\ call.args[2] = [type |-> "deposit", timestamp |-> 2]
    /\ Len(call.result) = 1
    /\ call.result[1].timestamp = 2
    /\ \E j \in 1..Len(transactions) :
           transactions[j].type = "deposit" /\ transactions[j].timestamp = 1
    /\ \E j \in 1..Len(transactions) :
           transactions[j].type = "transfer" /\ transactions[j].from = "alice"

\* the positions of the log whose records name the user and equal the filter
Matching(u, filters) ==
    {j \in 1..Len(transactions) :
        IsParty(transactions[j], u) /\ MatchesAll(transactions[j], filters)}

\* the pages 1..n of the query, one after the other
RECURSIVE Pages(_, _, _, _)
Pages(u, filters, size, n) ==
    IF n = 0 THEN <<>>
    ELSE Pages(u, filters, size, n - 1)
             \o Result_track_transactions(State, u, filters, n, size)

CeilDiv(n, d) == (n + d - 1) \div d

\* C23: with N matching records, page p of size s holds min(s, max(0, N -
\* (p-1)*s)) records, namely elements (p-1)*s .. p*s-1 of the pages 1..ceil(N/s)
\* put together; these pages hold every matching record of the log exactly
\* once, newest first, and every later page is empty
C23_Pagination ==
    (call.op = "track_transactions" /\ Succeeded) =>
        LET u == call.args[1]
            filters == call.args[2]
            p == call.args[3]
            s == call.args[4]
            M == Matching(u, filters)
            N == Cardinality(M)
            rest == IF N - (p - 1) * s > 0 THEN N - (p - 1) * s ELSE 0
            all == Pages(u, filters, s, CeilDiv(N, s))
        IN  /\ Len(call.result) = (IF s < rest THEN s ELSE rest)
            /\ Len(all) = N
            /\ \E f \in [1..N -> M] :
                   /\ \A i \in 1..N, j \in 1..N : f[i] = f[j] => i = j
                   /\ \A i \in 1..N : all[i] = transactions[f[i]]
            /\ \A i \in 1..N, j \in 1..N :
                   i < j => all[i].timestamp >= all[j].timestamp
            /\ \A i \in 1..Len(call.result) :
                   call.result[i] = all[(p - 1) * s + i]
            /\ p > CeilDiv(N, s) => call.result = <<>>
            /\ Result_track_transactions(State, u, filters, CeilDiv(N, s) + 1, s)
                   = <<>>

\* C23 witness: three records match, and page 2 of size 2 returned the one
\* record left after page 1
C23_Witness ==
    /\ call.op = "track_transactions"
    /\ Succeeded
    /\ Cardinality(Matching(call.args[1], call.args[2])) = 3
    /\ call.args[3] = 2
    /\ call.args[4] = 2
    /\ Len(call.result) = 1

\* C24: track_transactions is rejected as R1 when the user has no account,
\* as R2 when page < 1 and as R3 when page_size is outside 1..100 (0 and 101
\* rejected, 1 and 100 accepted); a rejected query changes nothing
C24_AcceptedIff ==
    call.op = "track_transactions" =>
        LET u == call.args[1]
            p == call.args[3]
            s == call.args[4]
        IN  /\ u \notin DOMAIN balances => call.outcome = "R1"
            /\ (u \in DOMAIN balances /\ p < 1) => call.outcome = "R2"
            /\ (u \in DOMAIN balances /\ p >= 1 /\ (s < 1 \/ s > 100))
                   => call.outcome = "R3"
            /\ (u \in DOMAIN balances /\ p >= 1 /\ s >= 1 /\ s <= 100)
                   => Accepted
            /\ State = old

\* C24 witness: a query by an account holder for page 1 with page_size 101
\* was rejected as R3
C24_Witness ==
    /\ call.op = "track_transactions"
    /\ call.args[1] \in DOMAIN balances
    /\ call.args[3] = 1
    /\ call.args[4] = 101
    /\ call.outcome = "R3"

\* C25: authenticate_pin returns True exactly when the user has a PIN record
\* equal to the given pin (so False for every input while no PIN is set); the
\* record of a user is set to p by a successful set_pin(u, p) and changed by
\* nothing else, so p is the one PIN that authenticates until the next
\* successful set_pin
C25_Authenticate ==
    /\ (call.op = "authenticate_pin" /\ Accepted) =>
           call.result = (/\ call.args[1] \in DOMAIN user_pins
                          /\ user_pins[call.args[1]] = call.args[2])
    /\ (call.op = "set_pin" /\ Succeeded) =>
           /\ user_pins[call.args[1]] = call.args[2]
           /\ \A v \in DOMAIN user_pins \ {call.args[1]} :
                  v \in DOMAIN old.user_pins /\ user_pins[v] = old.user_pins[v]
           /\ \A p \in PinInputs.pins :
                  Result_authenticate_pin(State, call.args[1], p)
                      = (p = call.args[2])
    /\ ~(call.op = "set_pin" /\ Succeeded) => user_pins = old.user_pins

\* C25 witness: the PIN 87654321 was set for alice and authenticates her,
\* while bob has an account and no PIN
C25_Witness ==
    /\ call.op = "authenticate_pin"
    /\ call.args = <<"alice", "87654321">>
    /\ Succeeded
    /\ call.result = TRUE
    /\ "bob" \in DOMAIN balances
    /\ "bob" \notin DOMAIN user_pins

\* str.isdecimal: one or more of the digits 0..9
IsDecimal(s) == Len(s) > 0 /\ \A i \in 1..Len(s) : SubSeq(s, i, i) \in Digits

\* C26: every stored PIN is a string of 4 to 8 decimal digits
C26_StoredPins ==
    \A u \in DOMAIN user_pins :
        /\ 4 <= Len(user_pins[u])
        /\ Len(user_pins[u]) <= 8
        /\ IsDecimal(user_pins[u])

\* a limit is absent or a number above 0
AbsentOrPositive(x) == x = NoLimit \/ (x[1] # NAN /\ x[1] > 0)

\* C27: set_spending_limits is accepted exactly when the account exists,
\* daily and monthly are each absent or > 0, and daily <= monthly when both
\* are present (R1, R2, R3 in this order otherwise); on success the user's
\* record is replaced by {daily, monthly, daily_used 0, monthly_used 0} and
\* nothing else changes; a rejected call changes nothing
C27_SpendingLimits ==
    call.op = "set_spending_limits" =>
        LET u == call.args[1]
            d == call.args[2]
            m == call.args[3]
            exists == u \in DOMAIN old.balances
            positive == AbsentOrPositive(d) /\ AbsentOrPositive(m)
            ordered == (d # NoLimit /\ m # NoLimit) => d[1] <= m[1]
        IN  /\ Accepted <=> (exists /\ positive /\ ordered)
            /\ ~exists => call.outcome = "R1"
            /\ (exists /\ ~positive) => call.outcome = "R2"
            /\ (exists /\ positive /\ ~ordered) => call.outcome = "R3"
            /\ Accepted => Succeeded
            /\ Succeeded =>
                   State = [old EXCEPT !.spending_limits =
                               DictSet(old.spending_limits, u,
                                   [daily |-> d, monthly |-> m,
                                    daily_used |-> 0, monthly_used |-> 0])]
            /\ ~Accepted => State = old

\* C27 witness: alice's record with equal limits was replaced by one with a
\* daily limit only below the monthly one
C27_Witness ==
    /\ call.op = "set_spending_limits"
    /\ Succeeded
    /\ call.args = <<"alice", <<100 * UNIT>>, <<1000 * UNIT>> >>
    /\ "alice" \in DOMAIN old.spending_limits
    /\ old.spending_limits["alice"].monthly = <<100 * UNIT>>
    /\ spending_limits["alice"].monthly = <<1000 * UNIT>>

\* C28: a successful add_payment_method(u, m) puts m at the end of u's
\* sequence and changes nothing else (no other user's sequence, no balance);
\* the call is rejected as R1 without an account and as R2 or R3 when the
\* type is missing or not card, bank_account or paypal, and then changes
\* nothing; no other operation changes a sequence; get_payment_methods
\* returns the user's sequence, empty when nothing was added
C28_PaymentMethods ==
    /\ call.op = "add_payment_method" =>
           LET u == call.args[1]
               m == call.args[2]
               typed == "type" \in DOMAIN m
                        /\ m["type"] \in {"card", "bank_account", "paypal"}
           IN  /\ Accepted <=> (u \in DOMAIN old.balances /\ typed)
               /\ u \notin DOMAIN old.balances => call.outcome = "R1"
               /\ Accepted => Succeeded
               /\ Succeeded =>
                      State = [old EXCEPT !.payment_methods =
                                  DictSet(old.payment_methods, u,
                                      Append(Get(old.payment_methods, u, <<>>), m))]
               /\ ~Accepted => State = old
    /\ call.op # "add_payment_method" => payment_methods = old.payment_methods
    /\ (call.op = "get_payment_methods" /\ Accepted) =>
           call.result = (IF call.args[1] \in DOMAIN payment_methods
                          THEN payment_methods[call.args[1]] ELSE <<>>)

\* C28 witness: a paypal method was added behind alice's card while bob has
\* a method of his own and alice a balance
C28_Witness ==
    /\ call.op = "add_payment_method"
    /\ Succeeded
    /\ call.args = <<"alice", [type |-> "paypal"]>>
    /\ payment_methods["alice"] = <<[type |-> "card"], [type |-> "paypal"]>>
    /\ "bob" \in DOMAIN payment_methods
    /\ balances["alice"] # 0

\* an apply_interest is in progress that has updated some accounts and has
\* others still to update
Torn ==
    /\ running # <<>>
    /\ running[1].keys # <<>>
    /\ Len(running[1].keys) < Len(running[1].start.balance_keys)

\* C29: every operation executes as a critical section: while apply_interest
\* has updated some accounts and not yet the others, no other operation
\* executes on (observes or changes) that intermediate state
C29_CriticalSection == [][Torn => call' = call]_vars

\* C30: verify_invariants returns True exactly when every balance is >= 0
\* and every key of the PIN, payment-method and spending-limit maps is an
\* account, and False (without raising) otherwise; it changes no state; it
\* is True on the empty system and after every successful public operation
\* on a system where it was True
C30_VerifyInvariants ==
    /\ call.op = "verify_invariants" =>
           /\ call.outcome = "ok"
           /\ call.result =
                  (/\ \A u \in DOMAIN balances :
                          balances[u] # NAN /\ balances[u] >= 0
                   /\ DOMAIN user_pins \subseteq DOMAIN balances
                   /\ DOMAIN payment_methods \subseteq DOMAIN balances
                   /\ DOMAIN spending_limits \subseteq DOMAIN balances)
           /\ State = old
    /\ State = EmptyState => verify_invariants(State)
    /\ (Succeeded /\ call.op # "__init__" /\ verify_invariants(old))
           => verify_invariants(State)

\* C30 witness: with every balance >= 0 and a spending-limit record of
\* ghost_user, who has no account, the call returned False
C30_Witness ==
    /\ call.op = "verify_invariants"
    /\ call.outcome = "ok"
    /\ call.result = FALSE
    /\ balances # EmptyDict
    /\ \A u \in DOMAIN balances : FGe(balances[u], 0)
    /\ DOMAIN user_pins \subseteq DOMAIN balances
    /\ DOMAIN payment_methods \subseteq DOMAIN balances
    /\ "ghost_user" \in DOMAIN spending_limits

\* what a log record adds to the account of u: + for a deposit, interest,
\* credit or debit of u (a debit's amount is negative) and for a transfer to
\* u, - for a withdrawal of u and for a transfer from u
Signed(t, u) ==
    IF t.type = "transfer"
    THEN (IF t.to = u THEN t.amount ELSE 0) - (IF t.from = u THEN t.amount ELSE 0)
    ELSE IF t.user_id # u THEN 0
    ELSE IF t.type = "withdrawal" THEN 0 - t.amount
    ELSE t.amount

\* the signed sum of the first n log records for u, in exact arithmetic
RECURSIVE LedgerSum(_, _)
LedgerSum(u, n) ==
    IF n = 0 THEN 0 ELSE LedgerSum(u, n - 1) + Signed(transactions[n], u)

\* the same sum accumulated in floats, in log order
RECURSIVE LedgerReplay(_, _)
LedgerReplay(u, n) ==
    IF n = 0 THEN 0 ELSE FAdd(LedgerReplay(u, n - 1), Signed(transactions[n], u))

\* C31: the balance of every account equals the signed sum of its log
\* records: deposits, interest, credits, debits and incoming transfers minus
\* withdrawals and outgoing transfers
C31_LedgerReconstruction ==
    (AllFinite(balances)
     /\ \A i \in 1..Len(transactions) : IsFinite(transactions[i].amount)) =>
        \A u \in DOMAIN balances : balances[u] = LedgerSum(u, Len(transactions))

TxTypes == {"deposit", "withdrawal", "transfer", "interest", "credit", "debit"}

\* C32: every log record has status completed and one of the six types; the
\* ids are pairwise distinct; a transfer has from and to, different, and no
\* user_id; every other record has a user_id; a withdrawal has a destination
\* starting with PT of length >= 10; every user a record names has an account
C32_LogWellFormed ==
    /\ \A i \in 1..Len(transactions) :
           LET t == transactions[i]
           IN  /\ t.status = "completed"
               /\ t.type \in TxTypes
               /\ IF t.type = "transfer"
                  THEN /\ "from" \in DOMAIN t
                       /\ "to" \in DOMAIN t
                       /\ t.from # t.to
                       /\ "user_id" \notin DOMAIN t
                       /\ t.from \in DOMAIN balances
                       /\ t.to \in DOMAIN balances
                  ELSE /\ "user_id" \in DOMAIN t
                       /\ t.user_id \in DOMAIN balances
                       /\ "from" \notin DOMAIN t
                       /\ "to" \notin DOMAIN t
               /\ t.type = "withdrawal" =>
                      /\ "destination" \in DOMAIN t
                      /\ Len(t.destination) >= 10
                      /\ SubSeq(t.destination, 1, 2) = "PT"
    /\ \A i \in 1..Len(transactions), j \in 1..Len(transactions) :
           transactions[i].id = transactions[j].id => i = j

\* C32 witness: the log holds a deposit, a transfer and a withdrawal
C32_Witness ==
    /\ Len(transactions) = 3
    /\ transactions[1].type = "deposit"
    /\ transactions[2].type = "transfer"
    /\ transactions[3].type = "withdrawal"

MoneyOps ==
    {"add_funds", "withdraw_funds", "transfer", "apply_interest",
     "real_time_update"}

\* the spending-limit maps a state with these accounts can hold: for every
\* set of accounts, no limits or a limit of 0.05 a day and a month
LimitMaps(accounts) ==
    UNION {[S -> {[daily |-> NoLimit, monthly |-> NoLimit,
                   daily_used |-> 0, monthly_used |-> 0],
                  [daily |-> <<1>>, monthly |-> <<1>>,
                   daily_used |-> 0, monthly_used |-> 0]}] :
              S \in SUBSET accounts}

\* the timestamps of the records appended by the last call, or <<1>>
NowsOfCall ==
    IF Len(transactions) > Len(old.transactions)
    THEN [i \in 1..(Len(transactions) - Len(old.transactions)) |->
             transactions[Len(old.transactions) + i].timestamp]
    ELSE <<1>>

\* C33: a call of add_funds, withdraw_funds, transfer, apply_interest or
\* real_time_update ends the same way and leaves the same balances and the
\* same log in every state that differs from the one it was called in only
\* in the spending_limits map; the limits themselves are left as they were
C33_LimitsInert ==
    call.op \in MoneyOps =>
        /\ spending_limits = old.spending_limits
        /\ \A L \in LimitMaps(DOMAIN old.balances) :
               LET r == Exec([old EXCEPT !.spending_limits = L],
                             call.op, call.args, NowsOfCall)
               IN  /\ r.outcome = call.outcome
                   /\ r.state.balances = balances
                   /\ r.state.balance_keys = balance_keys
                   /\ r.state.transactions = transactions
                   /\ r.state.spending_limits = L

\* C33 witness: a withdrawal of 0.10 went through for a user whose daily and
\* monthly limits are 0.05
C33_Witness ==
    /\ call.op = "withdraw_funds"
    /\ Succeeded
    /\ call.args[1] \in DOMAIN spending_limits
    /\ spending_limits[call.args[1]].daily = <<1>>
    /\ spending_limits[call.args[1]].monthly = <<1>>
    /\ call.args[3] = 2

\* C34: every stored spending-limit record has daily_used = 0 and
\* monthly_used = 0, each of daily and monthly absent or > 0, and
\* daily <= monthly when both are present
C34_LimitRecords ==
    \A u \in DOMAIN spending_limits :
        LET l == spending_limits[u]
        IN  /\ l.daily_used = 0
            /\ l.monthly_used = 0
            /\ AbsentOrPositive(l.daily)
            /\ AbsentOrPositive(l.monthly)
            /\ (l.daily # NoLimit /\ l.monthly # NoLimit)
                   => l.daily[1] <= l.monthly[1]

\* C34 witness: alice's record has a daily limit below the monthly one and
\* bob's has no limits at all
C34_Witness ==
    /\ "alice" \in DOMAIN spending_limits
    /\ "bob" \in DOMAIN spending_limits
    /\ spending_limits["alice"].daily = <<100 * UNIT>>
    /\ spending_limits["alice"].monthly = <<1000 * UNIT>>
    /\ spending_limits["bob"].daily = NoLimit
    /\ spending_limits["bob"].monthly = NoLimit

\* map d agrees with map e on every key but u
SameButFor(d, e, u) ==
    /\ DOMAIN d \ {u} = DOMAIN e \ {u}
    /\ \A v \in DOMAIN d \ {u} : d[v] = e[v]

\* C35: set_pin changes only the named user's PIN, set_spending_limits only
\* that user's limit record, add_payment_method only that user's method
\* sequence and create_account only adds the new balance entry; none of them
\* changes an existing balance, the log or another user's records
C35_Frame ==
    LET u == call.args[1]
    IN  /\ call.op \in {"create_account", "set_pin", "set_spending_limits",
                        "add_payment_method"} =>
               /\ transactions = old.transactions
               /\ \A v \in DOMAIN old.balances :
                      v \in DOMAIN balances /\ balances[v] = old.balances[v]
        /\ call.op = "create_account" =>
               /\ DOMAIN balances \subseteq DOMAIN old.balances \cup {u}
               /\ user_pins = old.user_pins
               /\ payment_methods = old.payment_methods
               /\ spending_limits = old.spending_limits
        /\ call.op = "set_pin" =>
               /\ balances = old.balances
               /\ SameButFor(user_pins, old.user_pins, u)
               /\ payment_methods = old.payment_methods
               /\ spending_limits = old.spending_limits
        /\ call.op = "set_spending_limits" =>
               /\ balances = old.balances
               /\ user_pins = old.user_pins
               /\ payment_methods = old.payment_methods
               /\ SameButFor(spending_limits, old.spending_limits, u)
        /\ call.op = "add_payment_method" =>
               /\ balances = old.balances
               /\ user_pins = old.user_pins
               /\ SameButFor(payment_methods, old.payment_methods, u)
               /\ spending_limits = old.spending_limits

\* C35 witness: alice's PIN was replaced while bob has a PIN, a limit record
\* and a payment method and one of them holds a balance
C35_Witness ==
    /\ call.op = "set_pin"
    /\ Succeeded
    /\ call.args[1] = "alice"
    /\ "alice" \in DOMAIN old.user_pins
    /\ old.user_pins["alice"] # user_pins["alice"]
    /\ "bob" \in DOMAIN user_pins
    /\ "bob" \in DOMAIN spending_limits
    /\ "bob" \in DOMAIN payment_methods
    /\ Len(transactions) = 1

\* C36: the log grows by one record with every successful add_funds,
\* withdraw_funds, transfer and real_time_update, by one record per account
\* with every successful apply_interest, and not at all with any other call,
\* so its length is the sum of these numbers over the calls made
C36_LogLength ==
    Len(transactions) - Len(old.transactions) =
        (IF ~Succeeded THEN 0
         ELSE IF call.op \in {"add_funds", "withdraw_funds", "transfer",
                              "real_time_update"} THEN 1
         ELSE IF call.op = "apply_interest" THEN Cardinality(DOMAIN old.balances)
         ELSE 0)

\* the position of a record in the log
LogIndex(t) == CHOOSE j \in 1..Len(transactions) : transactions[j] = t

\* C37: in the list track_transactions sorts, a record with a later
\* timestamp comes first and records with equal timestamps keep their log
\* order; the list, and with it the page returned, is thereby determined by
\* the log, the user, the filters, page and page_size
C37_StableSort ==
    (call.op = "track_transactions" /\ Succeeded) =>
        LET u == call.args[1]
            filters == call.args[2]
            p == call.args[3]
            s == call.args[4]
            N == Cardinality(Matching(u, filters))
            all == Pages(u, filters, s, CeilDiv(N, s))
        IN  /\ Len(all) = N
            /\ \A i \in 1..N, j \in 1..N :
                   i < j =>
                       \/ all[i].timestamp > all[j].timestamp
                       \/ /\ all[i].timestamp = all[j].timestamp
                          /\ LogIndex(all[i]) < LogIndex(all[j])
            /\ \A i \in 1..Len(call.result) :
                   call.result[i] = all[(p - 1) * s + i]

\* C37 witness: the newest record, logged between two records of one
\* timestamp, was returned first and the two others in their log order
C37_Witness ==
    /\ call.op = "track_transactions"
    /\ Succeeded
    /\ Len(call.result) = 3
    /\ call.result[1] = transactions[2]
    /\ call.result[2] = transactions[1]
    /\ call.result[3] = transactions[3]
    /\ transactions[1].timestamp = transactions[3].timestamp

\* C38: create_account called in a state where verify_invariants() is False
\* is rejected and does not add the new account
C38_SystemPrecondition ==
    (call.op = "create_account" /\ ~verify_invariants(old)) =>
        /\ call.outcome # "ok"
        /\ balances = old.balances
        /\ balance_keys = old.balance_keys

\* C39: walletBackup.apply_interest with a positive rate turns every balance
\* into old * (10000 + rate) \div 10000 and the sum of the balances into
\* old_sum * (10000 + rate) \div 10000, so that its total-sum assertion holds
C39_BasisPoints ==
    (call.op = "walletBackup.apply_interest" /\ call.args[1] > 0) =>
        LET factor == 10000 + call.args[1]
        IN  /\ \A u \in DOMAIN old.balances :
                   balances[u] = (old.balances[u] * factor) \div 10000
            /\ ExactSum(balances, balance_keys)
                   = (ExactSum(old.balances, old.balance_keys) * factor) \div 10000
            /\ Succeeded

\* the records the last call appended
Appended == SubSeq(transactions, Len(old.transactions) + 1, Len(transactions))

\* C40: apply_interest terminates: a call in progress returns or raises, and
\* when it does it has visited each account that existed when it was called
\* exactly once, in order, whatever it appended to the log on the way
C40_Terminates ==
    /\ [](running # <<>> =>
              /\ Len(running[1].keys) <= Len(running[1].start.balance_keys)
              /\ Len(transactions) - Len(running[1].start.transactions)
                     = Len(running[1].start.balance_keys) - Len(running[1].keys))
    /\ []((running = <<>> /\ call.op = "apply_interest" /\ Accepted) =>
              /\ Len(Appended) = Len(old.balance_keys)
              /\ \A i \in 1..Len(Appended) :
                     /\ Appended[i].type = "interest"
                     /\ Appended[i].user_id = old.balance_keys[i])
    /\ (running # <<>>) ~> (running = <<>>)

\* C40 witness: the loop of a call for two accounts has visited both and
\* appended two records
C40_Witness ==
    /\ running # <<>>
    /\ running[1].keys = <<>>
    /\ Len(running[1].start.balance_keys) = 2
    /\ Len(transactions) = Len(running[1].start.transactions) + 2

====
